---- MODULE Spec2Model ----
(***************************************************************************)
(* A model of pycohortflow: the colour helpers, the style-configuration   *)
(* loader with its deep merge (cfd_util.py) and the render operation      *)
(* plot_cohort_flow_diagram (cfd.py).                                      *)
(*                                                                         *)
(* Text values whose characters the code inspects (colour specifications) *)
(* are sequences of one-character strings, so that startswith, lstrip,     *)
(* slicing, parsing and formatting are computed and not assumed.           *)
(***************************************************************************)
EXTENDS Integers, Sequences, FiniteSets, TLC

VARIABLES
    \* ---- the call under way
    callFn,          \* the function called
    callArgs,        \* its arguments
    callOut,         \* its outcome: Return(value) or Raise(class, info)
    pc,              \* the position of the call in the function's code
    \* ---- the locals of plot_cohort_flow_diagram and load_style_config
    cfg,             \* config / cfg: the style configuration tree
    main_palette,    \* the palette of the main boxes
    excl_palette,    \* the palette of the exclusion boxes
    processed_nodes, \* one record per node processed so far
    transition_gaps, \* the gap before each node but the first
    centers_y,       \* the vertical centre of each main box
    total_height,    \* the height of the whole diagram
    i,               \* the index of the loop under way
    \* ---- the world outside the call
    drawn,           \* the calls made on the drawing area, in order
    figures,         \* the number of figures created by plt.subplots
    files,           \* the files written by fig.savefig
    dirs,            \* the directories created by mkdir
    stdout,          \* the lines printed
    pathLooked,      \* custom_path.exists() has been evaluated
    bundled          \* the bundled style documents can be read

geometry == <<transition_gaps, centers_y, total_height>>
locals == <<cfg, main_palette, excl_palette, processed_nodes, geometry, i>>
world == <<drawn, figures, files, dirs, stdout, pathLooked, bundled>>
vars == <<callFn, callArgs, callOut, pc, locals, world>>

----------------------------------------------------------------------------
(* Bounds of the model *)

\* gradient_palette is applied for n in 0..MaxPaletteN
MaxPaletteN == 3

\* the documents of SpecMerge hold the scalars 1..MaxScalar
MaxScalar == 2

\* the render operation is given up to MaxNodes nodes with counts 0..MaxCount
MaxNodes == 2
MaxCount == 1

\* wrap_lines is applied to the texts of up to MaxTextLen characters and
\* the widths 0..MaxWidth
MaxTextLen == 6
MaxWidth == 3

----------------------------------------------------------------------------
(* Values *)

\* Python's None, and the outcome "raised ValueError" of matplotlib's to_hex
None == <<"None">>
ValueError == <<"ValueError">>

\* None where the argument is a name (a path, a file name, a drawing area)
NoValue == "<None>"

\* truthiness of such an argument: neither None nor the empty string
Truthy(x) == x # NoValue /\ x # ""

\* The outcome of a call: a returned value, or a raised exception with its
\* class and what its message carries
Return(v) == [raised |-> "no", value |-> v]
Raise(kind, info) == [raised |-> kind, value |-> info]

----------------------------------------------------------------------------
(* Characters *)

LowerHex == <<"0","1","2","3","4","5","6","7","8","9","a","b","c","d","e","f">>
UpperHex == <<"0","1","2","3","4","5","6","7","8","9","A","B","C","D","E","F">>

IsHexChar(c) == \E k \in 1..16 : LowerHex[k] = c \/ UpperHex[k] = c

\* int(c, 16) of one hexadecimal digit
HexVal(c) == (CHOOSE k \in 1..16 : LowerHex[k] = c \/ UpperHex[k] = c) - 1

\* format(v, "x") of one digit 0..15: lower case
HexChar(v) == LowerHex[v + 1]

\* str.startswith("#")
StartsWithHash(s) == Len(s) > 0 /\ s[1] = "#"

\* str.lstrip("#"): every leading '#' is removed
RECURSIVE LStripHash(_)
LStripHash(s) == IF Len(s) > 0 /\ s[1] = "#" THEN LStripHash(Tail(s)) ELSE s

AllHex(s) == \A k \in 1..Len(s) : IsHexChar(s[k])

----------------------------------------------------------------------------
(* matplotlib.colors.to_hex(spec, keep_alpha=False), as cfd_util uses it *)

\* The named colours known to the model (a part of matplotlib's table)
NamedColors == {<<"r","e","d">>, <<"b","l","u","e">>, <<"w","h","i","t","e">>}

NamedRGB(s) ==
    CASE s = <<"r","e","d">> -> <<255, 0, 0>>
      [] s = <<"b","l","u","e">> -> <<0, 0, 255>>
      [] s = <<"w","h","i","t","e">> -> <<255, 255, 255>>

\* _rgb_to_hex with the channels written in the order b, g, r
_rgb_to_hex_Reversed(rgb) ==
    <<"#", HexChar(rgb[3] \div 16), HexChar(rgb[3] % 16),
           HexChar(rgb[2] \div 16), HexChar(rgb[2] % 16),
           HexChar(rgb[1] \div 16), HexChar(rgb[1] % 16)>>

\* "#{:02x}{:02x}{:02x}".format(r, g, b)
_rgb_to_hex(rgb) ==
    <<"#", HexChar(rgb[1] \div 16), HexChar(rgb[1] % 16),
           HexChar(rgb[2] \div 16), HexChar(rgb[2] % 16),
           HexChar(rgb[3] \div 16), HexChar(rgb[3] % 16)>>

\* The channels of the digits after the '#': 3 or 4 digits are doubled,
\* 6 or 8 digits are pairs; an alpha digit or pair is dropped.
HexDigitsRGB(d) ==
    IF Len(d) \in {3, 4}
    THEN <<17 * HexVal(d[1]), 17 * HexVal(d[2]), 17 * HexVal(d[3])>>
    ELSE <<16 * HexVal(d[1]) + HexVal(d[2]),
           16 * HexVal(d[3]) + HexVal(d[4]),
           16 * HexVal(d[5]) + HexVal(d[6])>>

IsHexSpec(s) ==
    /\ StartsWithHash(s)
    /\ Len(s) \in {4, 5, 7, 9}
    /\ AllHex(Tail(s))

to_hex(s) ==
    IF IsHexSpec(s) THEN _rgb_to_hex(HexDigitsRGB(Tail(s)))
    ELSE IF s \in NamedColors THEN _rgb_to_hex(NamedRGB(s))
    ELSE ValueError

\* named_color(name)
named_color(name) == to_hex(name)

----------------------------------------------------------------------------
(* Gradient palettes *)

\* _hex_to_rgb(hex_color): strip '#', drop an alpha pair, parse three pairs
_hex_to_rgb(hex_color) ==
    LET h == LStripHash(hex_color)
        d == IF Len(h) = 8 THEN SubSeq(h, 1, 6) ELSE h
    IN  <<16 * HexVal(d[1]) + HexVal(d[2]),
          16 * HexVal(d[3]) + HexVal(d[4]),
          16 * HexVal(d[5]) + HexVal(d[6])>>

\* int(round(num / den)) for den > 0: Python rounds a tie to the even integer
RoundHalfEven(num, den) ==
    LET q == num \div den
        r == num % den
    IN  IF 2 * r > den THEN q + 1
        ELSE IF 2 * r < den THEN q
        ELSE IF q % 2 = 0 THEN q ELSE q + 1

\* InterpolateChannel with int() alone: the fraction is cut off
InterpolateChannel_Truncated(s, e, num, den) == (s * den + (e - s) * num) \div den

\* one channel of _interpolate_color at t = num / den
InterpolateChannel(s, e, num, den) == RoundHalfEven(s * den + (e - s) * num, den)

\* _interpolate_color(start_hex, end_hex, t) with t = num / den
_interpolate_color(start_hex, end_hex, num, den) ==
    LET s == _hex_to_rgb(start_hex)
        e == _hex_to_rgb(end_hex)
    IN  _rgb_to_hex(<<InterpolateChannel(s[1], e[1], num, den),
                      InterpolateChannel(s[2], e[2], num, den),
                      InterpolateChannel(s[3], e[3], num, den)>>)

\* gradient_palette with the factor i / n in place of i / (n - 1)
gradient_palette_OpenEnd(start_hex, end_hex, n) ==
    IF n <= 1 THEN Return(<<start_hex>>)
    ELSE LET s_hex == to_hex(start_hex)
             e_hex == to_hex(end_hex)
         IN  IF s_hex = ValueError THEN Raise("ValueError", start_hex)
             ELSE IF e_hex = ValueError THEN Raise("ValueError", end_hex)
             ELSE Return([k \in 1..n |->
                             _interpolate_color(s_hex, e_hex, k - 1, n)])

\* gradient_palette(start_hex, end_hex, n): the list, or the ValueError that
\* to_hex raises for an unrecognised end point (only when n > 1)
gradient_palette(start_hex, end_hex, n) ==
    IF n <= 1 THEN Return(<<start_hex>>)
    ELSE LET s_hex == to_hex(start_hex)
             e_hex == to_hex(end_hex)
         IN  IF s_hex = ValueError THEN Raise("ValueError", start_hex)
             ELSE IF e_hex = ValueError THEN Raise("ValueError", end_hex)
             ELSE Return([k \in 1..n |->
                             _interpolate_color(s_hex, e_hex, k - 1, n - 1)])

----------------------------------------------------------------------------
(* resolve_color(color_value, default_value, allow_named_colors) *)

\* resolve_color with the policy applied to color_value only, not to the
\* default it falls back to
resolve_color_PolicyOnGivenOnly(color_value, default_value, allow_named_colors) ==
    LET value == IF color_value = None THEN default_value ELSE color_value
    IN  IF ~allow_named_colors /\ color_value # None /\ ~StartsWithHash(value)
        THEN Raise("ColorPolicyError", value)
        ELSE IF to_hex(value) = ValueError
             THEN Raise("InvalidColorError", value)
             ELSE Return(to_hex(value))

resolve_color(color_value, default_value, allow_named_colors) ==
    LET value == IF color_value = None THEN default_value ELSE color_value
    IN  IF ~allow_named_colors /\ ~StartsWithHash(value)
        THEN Raise("ColorPolicyError", value)
        ELSE IF to_hex(value) = ValueError
             THEN Raise("InvalidColorError", value)
             ELSE Return(to_hex(value))

----------------------------------------------------------------------------
(* Text: the character classes of textwrap's word separator *)

Letters ==
    {"a","b","c","d","e","f","g","h","i","j","k","l","m","n","o","p","q","r",
     "s","t","u","v","w","x","y","z","A","B","C","D","E","F","G","H","I","J",
     "K","L","M","N","O","P","Q","R","S","T","U","V","W","X","Y","Z"}
Digits == {"0","1","2","3","4","5","6","7","8","9"}

\* the texts of the model hold the space as their only whitespace character
IsSpace(c) == c = " "
\* [^\d\W], \w and [\w!"'&.,?] of wordsep_re
IsLetter(c) == c \in Letters \cup {"_"}
IsWordChar(c) == c \in Letters \cup Digits \cup {"_"}
IsWordPunct(c) == IsWordChar(c) \/ c \in {"!", "'", "&", ".", ",", "?"}

\* the character at position k, or no character outside the text
CharAt(text, k) == IF k >= 1 /\ k <= Len(text) THEN text[k] ELSE ""

\* str.strip() == "": the string holds whitespace only
IsBlank(text) == \A k \in 1..Len(text) : IsSpace(text[k])

\* str.strip()
RECURSIVE LStrip(_)
LStrip(text) ==
    IF Len(text) > 0 /\ IsSpace(text[1]) THEN LStrip(Tail(text)) ELSE text
RECURSIVE RStrip(_)
RStrip(text) ==
    IF Len(text) > 0 /\ IsSpace(text[Len(text)])
    THEN RStrip(SubSeq(text, 1, Len(text) - 1)) ELSE text
Strip(text) == RStrip(LStrip(text))

\* "".join(parts)
RECURSIVE Join(_)
Join(parts) == IF parts = <<>> THEN <<>> ELSE Head(parts) \o Join(Tail(parts))

----------------------------------------------------------------------------
(* textwrap.wrap(text, width=width, break_long_words=False), with the      *)
(* defaults break_on_hyphens=True and drop_whitespace=True                  *)

\* the number of hyphens that start at position p
RECURSIVE HyphenRun(_, _)
HyphenRun(text, p) ==
    IF CharAt(text, p) = "-" THEN 1 + HyphenRun(text, p + 1) ELSE 0

\* -{2,}(?=\w) matches at p: two or more hyphens, then a word character
EmDashAt(text, p) ==
    /\ HyphenRun(text, p) >= 2
    /\ IsWordChar(CharAt(text, p + HyphenRun(text, p)))

\* the hyphen at q ends a chunk: two letters (or letter, hyphen, letter)
\* stand before it and a letter, an optional hyphen and a letter after it
HyphenBreak(text, q) ==
    /\ CharAt(text, q) = "-"
    /\ \/ IsLetter(CharAt(text, q - 2)) /\ IsLetter(CharAt(text, q - 1))
       \/ /\ IsLetter(CharAt(text, q - 3))
          /\ CharAt(text, q - 2) = "-"
          /\ IsLetter(CharAt(text, q - 1))
    /\ IsLetter(CharAt(text, q + 1))
    /\ \/ IsLetter(CharAt(text, q + 2))
       \/ CharAt(text, q + 2) = "-" /\ IsLetter(CharAt(text, q + 3))

\* the last position of the run of whitespace through p
RECURSIVE SpaceRunEnd(_, _)
SpaceRunEnd(text, p) ==
    IF IsSpace(CharAt(text, p + 1)) THEN SpaceRunEnd(text, p + 1) ELSE p

\* the last position of the word chunk whose characters up to q - 1 are
\* taken: the shortest run that a hyphen break, the end of the word or an
\* em-dash follows
RECURSIVE WordEnd(_, _)
WordEnd(text, q) ==
    IF HyphenBreak(text, q) THEN q
    ELSE IF q > Len(text) \/ IsSpace(text[q]) THEN q - 1
    ELSE IF IsWordPunct(CharAt(text, q - 1)) /\ EmDashAt(text, q) THEN q - 1
    ELSE WordEnd(text, q + 1)

\* the last position of the chunk that starts at p (one match of wordsep_re)
ChunkEnd(text, p) ==
    IF IsSpace(text[p]) THEN SpaceRunEnd(text, p)
    ELSE IF IsWordPunct(CharAt(text, p - 1)) /\ EmDashAt(text, p)
    THEN p + HyphenRun(text, p) - 1
    ELSE WordEnd(text, p + 1)

\* TextWrapper._split(text): the chunks of the text from position p on
RECURSIVE SplitFrom(_, _)
SplitFrom(text, p) ==
    IF p > Len(text) THEN <<>>
    ELSE <<SubSeq(text, p, ChunkEnd(text, p))>>
             \o SplitFrom(text, ChunkEnd(text, p) + 1)

\* the inner loop of _wrap_chunks: chunks are taken while they fit
RECURSIVE FillLine(_, _, _, _, _)
FillLine(chunks, k, cur_line, cur_len, width) ==
    IF k <= Len(chunks) /\ cur_len + Len(chunks[k]) <= width
    THEN FillLine(chunks, k + 1, Append(cur_line, chunks[k]),
                  cur_len + Len(chunks[k]), width)
    ELSE [cur_line |-> cur_line, k |-> k]

\* TextWrapper._wrap_chunks(chunks) for width > 0: the outer loop from
\* chunk k on, with the lines made so far
RECURSIVE WrapChunks(_, _, _, _)
WrapChunks(chunks, k, lines, width) ==
    IF k > Len(chunks) THEN lines
    ELSE LET \* whitespace at the start of a line is dropped, except at the
             \* very beginning of the text
             first == IF IsBlank(chunks[k]) /\ lines # <<>> THEN k + 1 ELSE k
             filled == FillLine(chunks, first, <<>>, 0, width)
             \* _handle_long_word without break_long_words: a chunk too
             \* long for any line is put alone on a line
             long == /\ filled.k <= Len(chunks)
                     /\ Len(chunks[filled.k]) > width
                     /\ filled.cur_line = <<>>
             taken == IF long THEN <<chunks[filled.k]>> ELSE filled.cur_line
             next == IF long THEN filled.k + 1 ELSE filled.k
             \* whitespace at the end of a line is dropped
             cur_line == IF taken # <<>> /\ IsBlank(taken[Len(taken)])
                         THEN SubSeq(taken, 1, Len(taken) - 1) ELSE taken
         IN  WrapChunks(chunks, next,
                        IF cur_line # <<>> THEN Append(lines, Join(cur_line))
                        ELSE lines,
                        width)

\* wrap_lines(text, width): the list of lines, or the ValueError that
\* textwrap raises for a width that is not positive
wrap_lines(text, width) ==
    IF text = <<>> THEN Return(<<>>)
    ELSE IF width <= 0 THEN Raise("InvalidWidth", width)
    ELSE LET wrapped == WrapChunks(SplitFrom(text, 1), 1, <<>>, width)
         IN  Return(IF wrapped # <<>> THEN wrapped ELSE <<text>>)

----------------------------------------------------------------------------
(* Configuration trees and _recursive_update *)

\* A value of a configuration document is a scalar or a mapping (a dict);
\* a mapping is a function from its keys to values.
Scalar(v) == [tag |-> "scalar", val |-> v]
Map(f) == [tag |-> "map", val |-> f]
IsMap(x) == x.tag = "map"
EmptyMap == Map(<<>>)

\* The outcome of a merge that raised TypeError
TypeError == [tag |-> "TypeError", val |-> <<>>]

\* _recursive_update(default, override): override is the dict being merged;
\* default is whatever the caller passed, a dict at the top level and
\* default[key] in the recursion, which the code does not test to be a dict.
\* On a default that is no dict the loop body raises TypeError ("key in
\* default" or "default[key] = value"); with an empty override the loop does
\* not run and default is returned as it is.
RECURSIVE _recursive_update(_, _)
_recursive_update(default, override) ==
    IF DOMAIN override.val = {} THEN default
    ELSE IF ~IsMap(default) THEN TypeError
    ELSE LET d == default.val
             o == override.val
             item(key) ==
                 IF IsMap(o[key]) /\ key \in DOMAIN d
                 THEN _recursive_update(d[key], o[key])
                 ELSE o[key]
         IN  IF \E key \in DOMAIN o : item(key) = TypeError
             THEN TypeError
             ELSE Map([key \in DOMAIN d \cup DOMAIN o |->
                          IF key \in DOMAIN o THEN item(key) ELSE d[key]])

----------------------------------------------------------------------------
(* The state before a call has done anything *)

IdleLocals ==
    /\ cfg = EmptyMap
    /\ main_palette = <<>>
    /\ excl_palette = <<>>
    /\ processed_nodes = <<>>
    /\ transition_gaps = <<>>
    /\ centers_y = <<>>
    /\ total_height = 0
    /\ i = 0

IdleWorld ==
    /\ drawn = <<>>
    /\ figures = 0
    /\ files = {}
    /\ dirs = {}
    /\ stdout = <<>>
    /\ pathLooked = FALSE

----------------------------------------------------------------------------
(* load_style_config *)

\* the registry with one style more
_BUILTIN_STYLES_WithNeon == {"white", "colorful", "neon"}

_BUILTIN_STYLES == {"white", "colorful"}

\* sorted(_BUILTIN_STYLES), as the error message lists it
SortedBuiltinStyles == <<"colorful", "white">>

White == <<"#","f","f","f","f","f","f">>

\* Lengths are kept in quarters of a hundredth, so that the halves the
\* layout takes of them are whole numbers: Fixed(52) stands for 0.52.
Fixed(hundredths) == 4 * hundredths

\* the "layout" section of the fallback (the wrap widths and the vertical
\* distances) and its "box_geometry" section (what the heights are made of)
FallbackLayout ==
    Map([main_title_width |-> Scalar(26),
         main_text_width |-> Scalar(34),
         exclusion_text_width |-> Scalar(30),
         base_gap |-> Scalar(Fixed(80)),
         top_margin |-> Scalar(Fixed(80)),
         bottom_margin |-> Scalar(Fixed(80))])

FallbackGeometry ==
    Map([padding |-> Scalar(Fixed(52)),
         title_line_height |-> Scalar(Fixed(42)),
         body_line_height |-> Scalar(Fixed(33)),
         title_body_gap |-> Scalar(Fixed(16)),
         text_top_padding |-> Scalar(Fixed(24)),
         min_main_height |-> Scalar(Fixed(160)),
         min_exclusion_height |-> Scalar(Fixed(120)),
         clearance |-> Scalar(Fixed(20))])

\* the hard-coded fallback configuration (the sections the layout and the
\* colours are computed from)
FallbackConfig ==
    Map([colors |-> Map([allow_named_colors |-> Scalar(TRUE),
                         main_start |-> Scalar(White),
                         main_end |-> Scalar(White),
                         exclusion_start |-> Scalar(White),
                         exclusion_end |-> Scalar(White)]),
         layout |-> FallbackLayout,
         box_geometry |-> FallbackGeometry])

\* the bundled document of the colorful style: pastel gradients, the
\* layout and the geometry of the white style
ColorfulConfig ==
    Map([colors |-> Map([allow_named_colors |-> Scalar(TRUE),
                         main_start |-> Scalar(<<"#","c","c","e","5","f","f">>),
                         main_end |-> Scalar(<<"#","e","6","c","c","f","f">>),
                         exclusion_start |-> Scalar(<<"#","f","f","e","5","c","c">>),
                         exclusion_end |-> Scalar(<<"#","f","f","c","c","c","c">>)]),
         layout |-> FallbackLayout,
         box_geometry |-> FallbackGeometry])

\* the bundled document of a built-in style
StyleDocument(style) == IF style = "white" THEN FallbackConfig ELSE ColorfulConfig

\* The files a custom_config_path may name
FileExists(path) == path # "missing.toml"
FileReadable(path) == path # "locked.toml"
FileParses(path) == path # "broken.toml"

\* tomllib.load of the readable, well-formed ones
FileDocument(path) ==
    CASE path = "hexonly.toml" ->
             Map([colors |-> Map([allow_named_colors |-> Scalar(FALSE)])])
      [] path = "named.toml" ->
             Map([colors |-> Map([main_start |-> Scalar(<<"r","e","d">>),
                                  exclusion_end |-> Scalar(<<"#","a","b","c">>)])])
      [] path = "strict.toml" ->
             Map([colors |-> Map([allow_named_colors |-> Scalar(FALSE),
                                  main_start |-> Scalar(<<"r","e","d">>),
                                  main_end |-> Scalar(<<"b","l","u","e">>)])])
      [] path = "badend.toml" ->
             Map([colors |-> Map([main_end |-> Scalar(<<"m","a","u","v","y">>)])])
      [] path = "table.toml" ->
             Map([colors |-> Map([main_end |->
                                     Map([r |-> Scalar(255)])])])
      [] path = "empty.toml" -> EmptyMap
      [] path = "narrow.toml" ->
             Map([layout |-> Map([main_title_width |-> Scalar(6),
                                  main_text_width |-> Scalar(8),
                                  exclusion_text_width |-> Scalar(8)])])
      [] path = "flat.toml" ->
             Map([layout |-> Map([main_title_width |-> Scalar(6),
                                  exclusion_text_width |-> Scalar(8),
                                  base_gap |-> Scalar(0),
                                  top_margin |-> Scalar(0),
                                  bottom_margin |-> Scalar(0)]),
                  box_geometry |-> Map([min_main_height |-> Scalar(Fixed(20)),
                                        min_exclusion_height |-> Scalar(Fixed(10)),
                                        clearance |-> Scalar(0)])])
      [] path = "overlap.toml" ->
             Map([layout |-> Map([base_gap |-> Scalar(Fixed(-200)),
                                  top_margin |-> Scalar(Fixed(-40))]),
                  box_geometry |-> Map([clearance |-> Scalar(Fixed(-300))])])
      [] path = "zerowidth.toml" ->
             Map([layout |-> Map([main_text_width |-> Scalar(0)])])

\* the arguments of load_style_config, also when the render operation calls it
StyleArg == callArgs.style
PathArg == IF callFn = "load_style_config" THEN callArgs.custom_config_path
           ELSE callArgs.style_config_path

\* 1. Resolve built-in style
ResolveStyle ==
    /\ pc = "ls_resolve"
    /\ IF StyleArg \notin _BUILTIN_STYLES
       THEN /\ pc' = "raised"
            /\ callOut' = Raise("UnknownStyleError",
                                [style |-> StyleArg,
                                 available |-> SortedBuiltinStyles])
       ELSE /\ pc' = "ls_base"
            /\ UNCHANGED callOut
    /\ UNCHANGED <<callFn, callArgs, locals, world>>

\* the bundled document, or the fallback when reading it raises
LoadBase ==
    /\ pc = "ls_base"
    /\ cfg' = IF bundled THEN StyleDocument(StyleArg) ELSE FallbackConfig
    /\ pc' = "ls_merge"
    /\ UNCHANGED <<callFn, callArgs, callOut, main_palette, excl_palette,
                   processed_nodes, geometry, i, world>>

\* MergeUserOverrides without the test custom_path.exists(): the file is
\* opened whether it is there or not
MergeUserOverrides_NoExistsTest(config, path) ==
    IF ~Truthy(path)
    THEN [out |-> Return(config), warned |-> FALSE, looked |-> FALSE]
    ELSE IF ~FileExists(path) \/ ~FileReadable(path)
    THEN [out |-> Raise("OSError", path), warned |-> FALSE, looked |-> FALSE]
    ELSE IF ~FileParses(path)
    THEN [out |-> Raise("TOMLDecodeError", path), warned |-> FALSE,
          looked |-> FALSE]
    ELSE IF _recursive_update(config, FileDocument(path)) = TypeError
    THEN [out |-> Raise("TypeError", path), warned |-> FALSE, looked |-> FALSE]
    ELSE [out |-> Return(_recursive_update(config, FileDocument(path))),
          warned |-> FALSE, looked |-> FALSE]

\* 2. Merge user overrides: what the last part of load_style_config does
\* with config and custom_config_path. out is the config returned or the
\* exception raised, warned tells whether the warning is printed, looked
\* whether custom_path.exists() is evaluated.
MergeUserOverrides(config, path) ==
    IF ~Truthy(path)
    THEN [out |-> Return(config), warned |-> FALSE, looked |-> FALSE]
    ELSE IF ~FileExists(path)
    THEN [out |-> Return(config), warned |-> TRUE, looked |-> TRUE]
    ELSE IF ~FileReadable(path)
    THEN [out |-> Raise("OSError", path), warned |-> FALSE, looked |-> TRUE]
    ELSE IF ~FileParses(path)
    THEN [out |-> Raise("TOMLDecodeError", path), warned |-> FALSE,
          looked |-> TRUE]
    ELSE IF _recursive_update(config, FileDocument(path)) = TypeError
    THEN [out |-> Raise("TypeError", path), warned |-> FALSE, looked |-> TRUE]
    ELSE [out |-> Return(_recursive_update(config, FileDocument(path))),
          warned |-> FALSE, looked |-> TRUE]

\* the warning printed for a path that does not exist
Warning(path) ==
    [line |-> "Warning: Custom config path does not exist. Ignoring.",
     about |-> path]

MergeOverrides ==
    /\ pc = "ls_merge"
    /\ LET r == MergeUserOverrides(cfg, PathArg)
       IN  /\ pathLooked' = r.looked
           /\ stdout' = IF r.warned THEN Append(stdout, Warning(PathArg))
                        ELSE stdout
           /\ IF r.out.raised # "no"
              THEN /\ pc' = "raised"
                   /\ callOut' = r.out
                   /\ UNCHANGED cfg
              ELSE /\ cfg' = r.out.value
                   /\ IF callFn = "load_style_config"
                      THEN pc' = "done" /\ callOut' = r.out
                      ELSE pc' = "palettes" /\ UNCHANGED callOut
    /\ UNCHANGED <<callFn, callArgs, main_palette, excl_palette, processed_nodes,
                   geometry, i, drawn, figures, files, dirs, bundled>>

----------------------------------------------------------------------------
(* plot_cohort_flow_diagram *)

\* a key the node dictionary does not have
Absent == <<"Absent">>

\* node.get(key, default)
Get(node, key, default) == IF node[key] = Absent THEN default ELSE node[key]

\* the sections of the configuration the function reads
colors == cfg.val["colors"].val
Color(key) == colors[key].val
layout == cfg.val["layout"].val
Layout(key) == layout[key].val
geom == cfg.val["box_geometry"].val
Geom(key) == geom[key].val

\* ax: the drawing area the calls are made on, the one supplied or the new
\* one of plt.subplots; fig: its figure
Axes == IF callArgs.ax = NoValue THEN "new axes" ELSE callArgs.ax
Figure == IF callArgs.ax = NoValue THEN "new figure"
          ELSE "figure of " \o callArgs.ax

\* one call on the drawing area: its kind, the node it belongs to (-1 for
\* the calls that set the area up), the z-order of the artist it adds, the
\* area it is made on, and the top and the height of what it adds
Shape(op, node, zorder, y, h) ==
    [op |-> op, node |-> node, zorder |-> zorder, ax |-> Axes,
     y |-> y, h |-> h]
Op(op, node, zorder) == Shape(op, node, zorder, 0, 0)

\* raise exc out of the render operation
RenderRaises(exc) ==
    /\ pc' = "raised"
    /\ callOut' = exc

\* CheckData without the test of data: the style is loaded first
CheckData_NoTest ==
    /\ pc = "start"
    /\ pc' = "ls_resolve"
    /\ UNCHANGED <<callFn, callArgs, callOut, locals, world>>

\* CheckData with the figure created before the test of data
CheckData_FigureFirst ==
    /\ pc = "start"
    /\ figures' = figures + 1
    /\ IF Len(callArgs.data) = 0
       THEN RenderRaises(Raise("EmptyInputError",
                               "data must contain at least one cohort node."))
       ELSE pc' = "ls_resolve" /\ UNCHANGED callOut
    /\ UNCHANGED <<callFn, callArgs, locals, drawn, files, dirs, stdout,
                   pathLooked, bundled>>

\* "if not data: raise ValueError", then the call of load_style_config
CheckData ==
    /\ pc = "start"
    /\ IF Len(callArgs.data) = 0
       THEN RenderRaises(Raise("EmptyInputError",
                               "data must contain at least one cohort node."))
       ELSE pc' = "ls_resolve" /\ UNCHANGED callOut
    /\ UNCHANGED <<callFn, callArgs, locals, world>>

\* kwargs.get(name) or gradient_palette(start, end, len(data))
PaletteFor(override, start, end) ==
    IF override # <<>> THEN Return(override)
    ELSE gradient_palette(Color(start), Color(end), Len(callArgs.data))

\* Colour palettes
BuildPalettes ==
    /\ pc = "palettes"
    /\ LET m == PaletteFor(callArgs.kwargs.main_palette, "main_start", "main_end")
           e == PaletteFor(callArgs.kwargs.exclusion_palette,
                           "exclusion_start", "exclusion_end")
       IN  IF m.raised # "no"
           THEN RenderRaises(m) /\ UNCHANGED <<main_palette, excl_palette>>
           ELSE IF e.raised # "no"
           THEN RenderRaises(e) /\ UNCHANGED <<main_palette, excl_palette>>
           ELSE /\ main_palette' = m.value
                /\ excl_palette' = e.value
                /\ pc' = "process"
                /\ UNCHANGED callOut
    /\ i' = 0
    /\ UNCHANGED <<callFn, callArgs, cfg, processed_nodes, geometry, world>>

\* MainColorRaw with the alias looked up before the explicit key
MainColorRaw_AliasFirst(node, default) ==
    Get(node, "color_name", Get(node, "color", default))

\* node.get("color", node.get("color_name", main_palette[i]))
MainColorRaw(node, default) ==
    Get(node, "color", Get(node, "color_name", default))

\* node.get("exclusion_color", node.get("exclusion_color_name", excl_palette[i]))
ExclColorRaw(node, default) ==
    Get(node, "exclusion_color", Get(node, "exclusion_color_name", default))

\* NExcluded with the difference taken the wrong way round
NExcluded_Reversed(data, k) ==
    data[k + 1].N - (IF k > 0 THEN data[k].N ELSE data[k + 1].N)

\* n_excluded = n_prev - n_curr for the node at index k (0-based)
NExcluded(data, k) ==
    (IF k > 0 THEN data[k].N ELSE data[k + 1].N) - data[k + 1].N

\* str(n) of a count, and the literal lines made of it
DecimalDigits == <<"0","1","2","3","4","5","6","7","8","9">>
RECURSIVE Decimal(_)
Decimal(n) ==
    IF n < 10 THEN <<DecimalDigits[n + 1]>>
    ELSE Decimal(n \div 10) \o <<DecimalDigits[(n % 10) + 1]>>

\* f"(n = {n})"
CountLine(n) == <<"(","n"," ","="," ">> \o Decimal(n) \o <<")">>

\* f"Step {k + 1}" for the node at index k (0-based)
StepHeading(k) == <<"S","t","e","p"," ">> \o Decimal(k + 1)

\* heading = node.get("heading", "").strip() or f"Step {i + 1}"
Heading(node, k) ==
    IF Strip(Get(node, "heading", <<>>)) # <<>>
    THEN Strip(Get(node, "heading", <<>>))
    ELSE StepHeading(k)

\* desc = node.get("description", "").strip()
Desc(node) == Strip(Get(node, "description", <<>>))

\* excl_desc = node.get("exclusion_description", "Excluded").strip()
ExclDesc(node) ==
    Strip(Get(node, "exclusion_description", <<"E","x","c","l","u","d","e","d">>))

\* body_lines: the count, then a blank line and the wrapped description
BodyLines(n_curr, desc, wrapped) ==
    <<CountLine(n_curr)>>
        \o (IF desc # <<>> THEN << <<>> >> \o wrapped ELSE <<>>)

Max(a, b) == IF a >= b THEN a ELSE b

\* MainHeight without the minimum height
MainHeight_NoMinimum(title_lines, body_lines) ==
    Geom("padding")
        + Geom("title_line_height") * Max(1, Len(title_lines))
        + Geom("title_body_gap")
        + Geom("body_line_height") * Max(1, Len(body_lines))

\* main_h = max(geom["min_main_height"], main_h_calc)
MainHeight(title_lines, body_lines) ==
    Max(Geom("min_main_height"),
        Geom("padding")
            + Geom("title_line_height") * Max(1, Len(title_lines))
            + Geom("title_body_gap")
            + Geom("body_line_height") * Max(1, Len(body_lines)))

\* excl_h = max(geom["min_exclusion_height"], excl_h_calc)
ExclHeight(excl_lines) ==
    Max(Geom("min_exclusion_height"),
        Geom("padding") + Geom("body_line_height") * Max(1, Len(excl_lines)))

\* 2. Data Processing & Sizing: the body of the loop for node i
ProcessNode ==
    /\ pc = "process"
    /\ LET data == callArgs.data
           node == data[i + 1]
           n_curr == node.N
           n_excluded == NExcluded(data, i)
           desc == Desc(node)
           title == wrap_lines(Heading(node, i), Layout("main_title_width"))
           body == IF desc # <<>>
                   THEN wrap_lines(desc, Layout("main_text_width"))
                   ELSE Return(<<>>)
           excl == wrap_lines(ExclDesc(node), Layout("exclusion_text_width"))
           title_lines == title.value
           body_lines == BodyLines(n_curr, desc, body.value)
           excl_lines == Append(excl.value, CountLine(n_excluded))
           main_color_raw == MainColorRaw(node, main_palette[i + 1])
           excl_color_raw == ExclColorRaw(node, excl_palette[i + 1])
           color == resolve_color(main_color_raw, main_palette[i + 1],
                                  Color("allow_named_colors"))
           excl_color == resolve_color(excl_color_raw, excl_palette[i + 1],
                                       Color("allow_named_colors"))
           failed(exc) == RenderRaises(exc) /\ UNCHANGED <<processed_nodes, i>>
       IN  IF n_excluded < 0
           THEN failed(Raise("OrderingError", [index |-> i, n_curr |-> n_curr]))
           ELSE IF title.raised # "no" THEN failed(title)
           ELSE IF body.raised # "no" THEN failed(body)
           ELSE IF excl.raised # "no" THEN failed(excl)
           ELSE IF color.raised # "no" THEN failed(color)
           ELSE IF excl_color.raised # "no" THEN failed(excl_color)
           ELSE /\ processed_nodes' =
                       Append(processed_nodes,
                              [n |-> n_curr, excl_n |-> n_excluded,
                               title_lines |-> title_lines,
                               body_lines |-> body_lines,
                               excl_lines |-> excl_lines,
                               color |-> color.value,
                               excl_color |-> excl_color.value,
                               main_h |-> MainHeight(title_lines, body_lines),
                               excl_h |-> ExclHeight(excl_lines)])
                /\ i' = i + 1
                /\ pc' = IF i + 1 < Len(data) THEN "process" ELSE "geometry"
                /\ UNCHANGED callOut
    /\ UNCHANGED <<callFn, callArgs, cfg, main_palette, excl_palette, geometry,
                   world>>

\* Half of a length
Half(x) == x \div 2

\* RequiredGap without the test of the excluded count
RequiredGap_Always(node) == node.excl_h + 2 * Geom("clearance")

\* RequiredGap without the clearance above and below the exclusion box
RequiredGap_NoClearance(node) == IF node.excl_n > 0 THEN node.excl_h ELSE 0

\* req_gap: the room the exclusion box of a node needs, if it has one
RequiredGap(node) ==
    IF node.excl_n > 0 THEN node.excl_h + 2 * Geom("clearance") ELSE 0

\* transition_gaps: one gap for each node but the first
TransitionGaps(nodes) ==
    [k \in 1..(Len(nodes) - 1) |->
        Max(Layout("base_gap"), RequiredGap(nodes[k + 1]))]

\* CentersY without the gap between a box and the next
RECURSIVE CentersY_NoGap(_, _, _)
CentersY_NoGap(nodes, gaps, n) ==
    IF n = 1 THEN <<Layout("top_margin") + Half(nodes[1].main_h)>>
    ELSE LET before == CentersY_NoGap(nodes, gaps, n - 1)
         IN  Append(before,
                    before[n - 1] + Half(nodes[n - 1].main_h)
                        + Half(nodes[n].main_h))

\* centers_y after the nodes up to the n-th, as the loop builds it
RECURSIVE CentersY(_, _, _)
CentersY(nodes, gaps, n) ==
    IF n = 1 THEN <<Layout("top_margin") + Half(nodes[1].main_h)>>
    ELSE LET before == CentersY(nodes, gaps, n - 1)
         IN  Append(before,
                    before[n - 1] + Half(nodes[n - 1].main_h) + gaps[n - 1]
                        + Half(nodes[n].main_h))

\* 3. Geometry Calculation
Geometry ==
    /\ pc = "geometry"
    /\ LET n == Len(processed_nodes)
           gaps == TransitionGaps(processed_nodes)
           centers == CentersY(processed_nodes, gaps, n)
       IN  /\ transition_gaps' = gaps
           /\ centers_y' = centers
           /\ total_height' = centers[n] + Half(processed_nodes[n].main_h)
                                  + Layout("bottom_margin")
    /\ pc' = "axes"
    /\ UNCHANGED <<callFn, callArgs, callOut, cfg, main_palette, excl_palette,
                   processed_nodes, i, world>>

\* SetupAxes with a figure made also when a drawing area is supplied
SetupAxes_AlwaysNew ==
    /\ pc = "axes"
    /\ figures' = figures + 1
    /\ drawn' = drawn
                \o (IF callArgs.transparent
                    THEN <<Op("set_alpha", -1, 0)>> ELSE <<>>)
                \o <<Op("invert_yaxis", -1, 0), Op("axis_off", -1, 0)>>
                \o (IF Truthy(callArgs.figure_title)
                    THEN <<Op("set_title", -1, 0)>> ELSE <<>>)
    /\ i' = 0
    /\ pc' = "draw"
    /\ UNCHANGED <<callFn, callArgs, callOut, cfg, main_palette, excl_palette,
                   processed_nodes, geometry, files, dirs, stdout, pathLooked,
                   bundled>>

\* 4. Plotting: the figure and the axes, before the loop over the nodes
SetupAxes ==
    /\ pc = "axes"
    /\ figures' = IF callArgs.ax = NoValue THEN figures + 1 ELSE figures
    /\ drawn' = drawn
                \o (IF callArgs.transparent
                    THEN <<Op("set_alpha", -1, 0)>> ELSE <<>>)
                \o <<Op("invert_yaxis", -1, 0), Op("axis_off", -1, 0)>>
                \o (IF Truthy(callArgs.figure_title)
                    THEN <<Op("set_title", -1, 0)>> ELSE <<>>)
    /\ i' = 0
    /\ pc' = "draw"
    /\ UNCHANGED <<callFn, callArgs, callOut, cfg, main_palette, excl_palette,
                   processed_nodes, geometry, files, dirs, stdout, pathLooked,
                   bundled>>

\* HasExclusion without the test of the excluded count
HasExclusion_Always(k, node) == k > 0

\* "if i > 0: ... if node["excl_n"] > 0": the exclusion branch is drawn
HasExclusion(k, node) == k > 0 /\ node.excl_n > 0

\* the top and the bottom of the main box of node k (0-based)
BoxTop(k) == centers_y[k + 1] - Half(processed_nodes[k + 1].main_h)
BoxBottom(k) == centers_y[k + 1] + Half(processed_nodes[k + 1].main_h)

\* mid_y = (prev_btm + curr_top) / 2 for node k >= 1
MidY(k) == Half(BoxBottom(k - 1) + BoxTop(k))

\* ZOrder with the junction markers on the layer of the text
ZOrder_JunctionWithText(op) ==
    CASE op \in {"arrow", "branch_arrow"} -> 1
      [] op \in {"main_box", "excl_box"} -> 2
      [] op \in {"title_text", "body_text", "excl_text", "junction"} -> 3

\* the zorder argument of the artists the drawing loop adds: annotate 1,
\* FancyBboxPatch 2, text 3, Circle 4
ZOrder(op) ==
    CASE op \in {"arrow", "branch_arrow"} -> 1
      [] op \in {"main_box", "excl_box"} -> 2
      [] op \in {"title_text", "body_text", "excl_text"} -> 3
      [] op = "junction" -> 4

\* the body of the drawing loop for node i
DrawNode ==
    /\ pc = "draw"
    /\ LET node == processed_nodes[i + 1]
           text_y == BoxTop(i) + Geom("text_top_padding")
           body_y == text_y
                       + Geom("title_line_height") * Max(1, Len(node.title_lines))
                       + Geom("title_body_gap")
       IN  drawn' = drawn
                \o <<Shape("main_box", i, ZOrder("main_box"), BoxTop(i), node.main_h),
                     Shape("title_text", i, ZOrder("title_text"), text_y, 0),
                     Shape("body_text", i, ZOrder("body_text"), body_y, 0)>>
                \o (IF i > 0
                    THEN <<Shape("arrow", i, ZOrder("arrow"), BoxBottom(i - 1),
                                 BoxTop(i) - BoxBottom(i - 1))>>
                    ELSE <<>>)
                \o (IF HasExclusion(i, node)
                    THEN <<Shape("excl_box", i, ZOrder("excl_box"),
                                 MidY(i) - Half(node.excl_h), node.excl_h),
                           Shape("junction", i, ZOrder("junction"), MidY(i), 0),
                           Shape("branch_arrow", i, ZOrder("branch_arrow"), MidY(i), 0),
                           Shape("excl_text", i, ZOrder("excl_text"), MidY(i), 0)>>
                    ELSE <<>>)
    /\ i' = i + 1
    /\ pc' = IF i + 1 < Len(processed_nodes) THEN "draw" ELSE "finish"
    /\ UNCHANGED <<callFn, callArgs, callOut, cfg, main_palette, excl_palette,
                   processed_nodes, geometry, figures, files, dirs, stdout,
                   pathLooked, bundled>>

\* save_format is one format string or a list of them
OneFormat(fmt) == [kind |-> "str", val |-> fmt]
FormatList(fmts) == [kind |-> "list", val |-> fmts]

\* "if isinstance(save_format, str): save_format = [save_format]"
Formats(save_format) ==
    IF save_format.kind = "str" THEN <<save_format.val>> ELSE save_format.val

\* CleanFormat that keeps the leading dots
CleanFormat_KeepDots(fmt) == fmt

\* clean_fmt = fmt.lstrip("."): every leading dot is removed
RECURSIVE CleanFormat(_)
CleanFormat(fmt) ==
    IF Len(fmt) > 0 /\ fmt[1] = "." THEN CleanFormat(Tail(fmt)) ELSE fmt

\* output_dir = Path(save_dir) if save_dir is not None else Path(".");
\* Path("") is Path(".")
OutputDir == IF callArgs.save_dir \in {NoValue, ""} THEN "."
             ELSE callArgs.save_dir

\* the directories that are there before the call
DirExists(path) == path \in {".", "out"}

\* full_path = output_dir / f"{img_name}.{clean_fmt}"
FullPath(fmt) ==
    [dir |-> OutputDir, name |-> callArgs.img_name, format |-> CleanFormat(fmt)]

\* the files fig.savefig writes, one for each format of the list
SavedFiles ==
    { FullPath(Formats(callArgs.save_format)[k]) :
          k \in 1..Len(Formats(callArgs.save_format)) }

\* Set axis limits, save, return
Finish ==
    /\ pc = "finish"
    /\ drawn' = drawn \o <<Op("set_xlim", -1, 0),
                            Shape("set_ylim", -1, 0, 0, total_height)>>
    /\ IF Truthy(callArgs.img_name)
       THEN /\ dirs' = IF DirExists(OutputDir) THEN dirs
                       ELSE dirs \cup {OutputDir}
            /\ files' = files \cup SavedFiles
            /\ stdout' = stdout \o
                   [k \in 1..Len(Formats(callArgs.save_format)) |->
                       [line |-> "Saved", about |-> callArgs.img_name]]
       ELSE UNCHANGED <<dirs, files, stdout>>
    /\ callOut' = Return([fig |-> Figure, ax |-> Axes])
    /\ pc' = "done"
    /\ UNCHANGED <<callFn, callArgs, locals, figures, pathLooked, bundled>>

----------------------------------------------------------------------------
(* The colour specifications the helpers are applied to *)

ColorSpecs ==
    { <<"#","a","a","b","b","c","c">>,              \* canonical
      <<"#","A","A","B","B","C","C">>,              \* upper case
      <<"#","a","b","c">>,                          \* three digits
      <<"#","0","0","0","0","0","0">>,
      <<"#","f","f","f","f","f","f">>,
      <<"#","1","0","2","0","3","0","8","0">>,      \* with alpha
      <<"r","e","d">>,
      <<"w","h","i","t","e">>,
      <<"#","z","z","z">>,                          \* '#' but no colour
      <<"m","a","u","v","y">> }                     \* no colour at all

\* The six-digit hex strings _hex_to_rgb is applied to: three pairs of
\* digits, lower and upper case, with and without the leading '#'
HexPairs ==
    { <<"0","0">>, <<"0","a">>, <<"7","f">>, <<"8","0">>, <<"f","f">>,
      <<"1","B">>, <<"A","0">>, <<"F","F">> }

SixDigitHex ==
    { prefix \o p1 \o p2 \o p3 :
          prefix \in {<<"#">>, <<>>}, p1 \in HexPairs, p2 \in HexPairs,
          p3 \in HexPairs }

----------------------------------------------------------------------------
(* Specification SpecColor: one call of a colour helper *)

InitColor ==
    /\ pc = "call"
    /\ bundled = TRUE
    /\ callOut = Return(None)
    /\ IdleLocals /\ IdleWorld
    /\ callArgs \in
          [fn : {"gradient_palette"}, start_hex : ColorSpecs,
           end_hex : ColorSpecs, n : 0..MaxPaletteN]
          \cup
          [fn : {"resolve_color"}, color_value : ColorSpecs \cup {None},
           default_value : ColorSpecs, allow_named_colors : BOOLEAN]
          \cup
          [fn : {"_hex_to_rgb"}, hex_color : SixDigitHex]
    /\ callFn = callArgs.fn

CallGradientPalette ==
    /\ pc = "call"
    /\ callFn = "gradient_palette"
    /\ pc' = "done"
    /\ callOut' = gradient_palette(callArgs.start_hex, callArgs.end_hex,
                                   callArgs.n)
    /\ UNCHANGED <<callFn, callArgs, locals, world>>

CallResolveColor ==
    /\ pc = "call"
    /\ callFn = "resolve_color"
    /\ pc' = "done"
    /\ callOut' = resolve_color(callArgs.color_value, callArgs.default_value,
                                callArgs.allow_named_colors)
    /\ UNCHANGED <<callFn, callArgs, locals, world>>

\* _hex_to_rgb(hex_color)
CallHexToRgb ==
    /\ pc = "call"
    /\ callFn = "_hex_to_rgb"
    /\ pc' = "parsed"
    /\ callOut' = Return(_hex_to_rgb(callArgs.hex_color))
    /\ UNCHANGED <<callFn, callArgs, locals, world>>

\* _rgb_to_hex(rgb), applied to the tuple _hex_to_rgb returned
CallRgbToHex ==
    /\ pc = "parsed"
    /\ pc' = "done"
    /\ callOut' = Return(_rgb_to_hex(callOut.value))
    /\ UNCHANGED <<callFn, callArgs, locals, world>>

NextColor ==
    \/ CallGradientPalette
    \/ CallResolveColor
    \/ CallHexToRgb
    \/ CallRgbToHex

SpecColor == InitColor /\ [][NextColor]_vars

----------------------------------------------------------------------------
(* Specification SpecText: one call of wrap_lines *)

TextAlphabet == {"a", "b", "-", " "}

\* every text of up to MaxTextLen characters of the alphabet
Texts == UNION { [1..n -> TextAlphabet] : n \in 0..MaxTextLen }

InitText ==
    /\ pc = "call"
    /\ bundled = TRUE
    /\ callFn = "wrap_lines"
    /\ callOut = Return(None)
    /\ IdleLocals /\ IdleWorld
    /\ callArgs \in [fn : {"wrap_lines"}, text : Texts, width : 0..MaxWidth]

CallWrapLines ==
    /\ pc = "call"
    /\ callFn = "wrap_lines"
    /\ pc' = "done"
    /\ callOut' = wrap_lines(callArgs.text, callArgs.width)
    /\ UNCHANGED <<callFn, callArgs, locals, world>>

NextText == CallWrapLines

SpecText == InitText /\ [][NextText]_vars

----------------------------------------------------------------------------
(* Specification SpecMerge: one call of _recursive_update *)

MergeKeys == {"x", "y"}
MergeScalars == 1..MaxScalar

\* every mapping from a subset of the keys to the given values
MapsOver(values) ==
    UNION { { Map(f) : f \in [ks -> values] } : ks \in SUBSET MergeKeys }

\* values one level deep, and the documents (dicts) two levels deep
MergeLeaves == { Scalar(v) : v \in MergeScalars }
MergeInner == MergeLeaves \cup MapsOver(MergeLeaves)
MergeDocs == MapsOver(MergeInner)

InitMerge ==
    /\ pc = "call"
    /\ bundled = TRUE
    /\ callFn = "_recursive_update"
    /\ callOut = Return(None)
    /\ IdleLocals /\ IdleWorld
    /\ callArgs \in [fn : {"_recursive_update"}, default : MergeDocs,
                     override : MergeDocs]

CallRecursiveUpdate ==
    /\ pc = "call"
    /\ callFn = "_recursive_update"
    /\ pc' = "done"
    /\ callOut' = LET r == _recursive_update(callArgs.default, callArgs.override)
                  IN  IF r = TypeError THEN Raise("TypeError", r) ELSE Return(r)
    /\ UNCHANGED <<callFn, callArgs, locals, world>>

NextMerge == CallRecursiveUpdate

SpecMerge == InitMerge /\ [][NextMerge]_vars

----------------------------------------------------------------------------
(* Specification SpecStyle: one call of load_style_config *)

StyleNames == {"white", "colorful", "neon", "White", ""}

ConfigPaths == {NoValue, "", "missing.toml", "locked.toml", "broken.toml",
                "hexonly.toml", "named.toml", "badend.toml", "table.toml",
                "empty.toml"}

InitStyle ==
    /\ pc = "ls_resolve"
    /\ callFn = "load_style_config"
    /\ callOut = Return(None)
    /\ callArgs \in [style : StyleNames, custom_config_path : ConfigPaths]
    /\ IdleLocals /\ IdleWorld
    /\ bundled \in BOOLEAN

NextStyle == ResolveStyle \/ LoadBase \/ MergeOverrides

SpecStyle == InitStyle /\ [][NextStyle]_vars

----------------------------------------------------------------------------
(* Specification Spec: one call of plot_cohort_flow_diagram *)

\* the colour keys a node dictionary may carry
NodeColours ==
    { [color |-> Absent, color_name |-> Absent,
       exclusion_color |-> Absent, exclusion_color_name |-> Absent],
      [color |-> <<"r","e","d">>, color_name |-> <<"#","a","b","c">>,
       exclusion_color |-> <<"#","1","0","2","0","3","0","8","0">>,
       exclusion_color_name |-> <<"w","h","i","t","e">>],
      [color |-> None, color_name |-> <<"b","l","u","e">>,
       exclusion_color |-> Absent,
       exclusion_color_name |-> <<"#","A","A","B","B","C","C">>],
      [color |-> Absent, color_name |-> Absent,
       exclusion_color |-> <<"m","a","u","v","y">>,
       exclusion_color_name |-> Absent] }

\* a node dictionary: its count, its texts and its colour keys
Node(n, t, c) ==
    [N |-> n, heading |-> t.heading, description |-> t.description,
     exclusion_description |-> t.exclusion_description,
     color |-> c.color, color_name |-> c.color_name,
     exclusion_color |-> c.exclusion_color,
     exclusion_color_name |-> c.exclusion_color_name]

\* a node without texts, and a node without colour keys
NoTexts ==
    [heading |-> Absent, description |-> Absent,
     exclusion_description |-> Absent]
NoColours ==
    [color |-> Absent, color_name |-> Absent,
     exclusion_color |-> Absent, exclusion_color_name |-> Absent]

Nodes == { Node(n, NoTexts, c) : n \in 0..MaxCount, c \in NodeColours }

DataLists == UNION { [1..n -> Nodes] : n \in 0..MaxNodes }

\* a palette passed by keyword: absent (or empty), or one entry per node
PaletteOverrides(n) ==
    { <<>>, [k \in 1..n |-> IF k = 1 THEN <<"#","a","b","c">>
                            ELSE <<"b","l","u","e">>] }

RenderStyles == {"white", "colorful", "neon"}
RenderPaths == {NoValue, "missing.toml", "hexonly.toml", "named.toml"}

Init ==
    /\ pc = "start"
    /\ callFn = "plot_cohort_flow_diagram"
    /\ callOut = Return(None)
    /\ \E data \in DataLists :
          callArgs \in [data : {data},
                        ax : {NoValue, "host_ax"},
                        save_dir : {NoValue},
                        img_name : {NoValue, "chart"},
                        save_format : {FormatList(<< <<"p","n","g">> >>)},
                        figure_title : {NoValue},
                        style : RenderStyles,
                        style_config_path : RenderPaths,
                        transparent : {FALSE},
                        kwargs : [main_palette : PaletteOverrides(Len(data)),
                                  exclusion_palette : PaletteOverrides(Len(data))]]
    /\ IdleLocals /\ IdleWorld
    /\ bundled = TRUE

Next ==
    \/ CheckData
    \/ ResolveStyle
    \/ LoadBase
    \/ MergeOverrides
    \/ BuildPalettes
    \/ ProcessNode
    \/ Geometry
    \/ SetupAxes
    \/ DrawNode
    \/ Finish

Spec == Init /\ [][Next]_vars

----------------------------------------------------------------------------
(* Specification SpecLayout: one call of plot_cohort_flow_diagram, over    *)
(* the texts of the nodes and the layout and geometry of the style         *)

\* the texts a node dictionary may carry
NodeTexts ==
    { NoTexts,
      [heading |-> <<"E","n","r","o","l","l","e","d"," ","p","a","t","i","e","n","t","s">>,
       description |-> <<"a","g","e"," ","1","8","-","6","5"," ","o","n","l","y">>,
       exclusion_description |-> <<"N","o","t"," ","e","l","i","g","i","b","l","e">>],
      [heading |-> <<" ">>,
       description |-> <<" ", " ">>,
       exclusion_description |-> <<>>],
      [heading |-> <<"A","n","a","l","y","s","e","d">>,
       description |-> Absent,
       exclusion_description |-> <<"L","o","s","t"," ","t","o"," ","f","o","l","l","o","w","-","u","p">>] }

LayoutNodes == { Node(n, t, NoColours) : n \in 0..MaxCount, t \in NodeTexts }

LayoutLists == UNION { [1..n -> LayoutNodes] : n \in 0..MaxNodes }

LayoutPaths == {NoValue, "narrow.toml", "flat.toml", "overlap.toml",
                "zerowidth.toml"}

InitLayout ==
    /\ pc = "start"
    /\ callFn = "plot_cohort_flow_diagram"
    /\ callOut = Return(None)
    /\ callArgs \in [data : LayoutLists,
                     ax : {NoValue},
                     save_dir : {NoValue},
                     img_name : {NoValue},
                     save_format : {FormatList(<< <<"p","n","g">> >>)},
                     figure_title : {NoValue},
                     style : {"white"},
                     style_config_path : LayoutPaths,
                     transparent : {FALSE},
                     kwargs : [main_palette : {<<>>},
                               exclusion_palette : {<<>>}]]
    /\ IdleLocals /\ IdleWorld
    /\ bundled = TRUE

SpecLayout == InitLayout /\ [][Next]_vars

----------------------------------------------------------------------------
(* Specification SpecOutput: one call of plot_cohort_flow_diagram, over    *)
(* the drawing area supplied and the files to save                         *)

OutputLists ==
    UNION { [1..n -> { Node(c, NoTexts, NoColours) : c \in 0..MaxCount }] :
                n \in 0..MaxNodes }

SaveFormats ==
    { OneFormat(<<"p","n","g">>),
      OneFormat(<<".","s","v","g">>),
      FormatList(<< <<"p","n","g">> >>),
      FormatList(<< <<"p","n","g">>, <<".","s","v","g">>,
                    <<".",".","p","d","f">> >>),
      FormatList(<< <<"p","n","g">>, <<".","p","n","g">> >>),
      FormatList(<<>>) }

InitOutput ==
    /\ pc = "start"
    /\ callFn = "plot_cohort_flow_diagram"
    /\ callOut = Return(None)
    /\ callArgs \in [data : OutputLists,
                     ax : {NoValue, "host_ax"},
                     save_dir : {NoValue, "", "out", "plots/new"},
                     img_name : {NoValue, "", "chart"},
                     save_format : SaveFormats,
                     figure_title : {NoValue, "Study"},
                     transparent : BOOLEAN,
                     style : {"white", "neon"},
                     style_config_path : {NoValue},
                     kwargs : [main_palette : {<<>>},
                               exclusion_palette : {<<>>}]]
    /\ IdleLocals /\ IdleWorld
    /\ bundled = TRUE

SpecOutput == InitOutput /\ [][Next]_vars

----------------------------------------------------------------------------
(* Specification SpecPalette: one call of plot_cohort_flow_diagram, over   *)
(* the gradient end points and the colour policy of the style              *)

PalettePaths == {NoValue, "hexonly.toml", "named.toml", "strict.toml",
                 "badend.toml"}

InitPalette ==
    /\ pc = "start"
    /\ callFn = "plot_cohort_flow_diagram"
    /\ callOut = Return(None)
    /\ callArgs \in [data : DataLists,
                     ax : {NoValue},
                     save_dir : {NoValue},
                     img_name : {NoValue},
                     save_format : {FormatList(<< <<"p","n","g">> >>)},
                     figure_title : {NoValue},
                     style : {"white", "colorful"},
                     style_config_path : PalettePaths,
                     transparent : {FALSE},
                     kwargs : [main_palette : {<<>>},
                               exclusion_palette : {<<>>}]]
    /\ IdleLocals /\ IdleWorld
    /\ bundled = TRUE

SpecPalette == InitPalette /\ [][Next]_vars

----------------------------------------------------------------------------
(* Properties of the render operation, checked under Spec *)

Data == callArgs.data
NumNodes == Len(callArgs.data)
Terminated == pc \in {"done", "raised"}

\* nothing was drawn, created or written
NoOutput == drawn = <<>> /\ figures = 0 /\ files = {} /\ dirs = {}

\* C1: a call with an empty node list raises the empty-input error, whatever
\* the other options are (unknown style, missing override path, ...), as the
\* first thing it does, and nothing is drawn, created, written or printed.
C1_EmptyInputRaises ==
    (NumNodes = 0 /\ pc # "start")
        => /\ pc = "raised"
           /\ callOut.raised = "EmptyInputError"
           /\ NoOutput
           /\ stdout = <<>>
           /\ ~pathLooked

\* an empty node list with an unknown style and a missing override path
C1_Witness ==
    /\ NumNodes = 0
    /\ pc = "raised"
    /\ callArgs.style = "neon"
    /\ callArgs.style_config_path = "missing.toml"
    /\ callArgs.ax = "host_ax"
    /\ callArgs.img_name = "chart"

\* the positions (0-based) of the nodes whose count exceeds the previous one
Increases == { k \in 1..(NumNodes - 1) : Data[k + 1].N > Data[k].N }
FirstIncrease == CHOOSE k \in Increases : \A j \in Increases : k <= j

\* every colour specification of the call is recognised and, where the style
\* admits hex colours only, '#'-prefixed
SpecValid(c) == to_hex(c) # ValueError
                /\ (Color("allow_named_colors") \/ StartsWithHash(c))
NodeColourKeys == {"color", "color_name", "exclusion_color", "exclusion_color_name"}
ValidColours ==
    /\ \A k \in 1..NumNodes : \A key \in NodeColourKeys :
          Data[k][key] \in {Absent, None} \/ SpecValid(Data[k][key])
    /\ \A key \in {"main_start", "main_end", "exclusion_start", "exclusion_end"} :
          SpecValid(Color(key))
    /\ \A k \in 1..Len(callArgs.kwargs.main_palette) :
          SpecValid(callArgs.kwargs.main_palette[k])
    /\ \A k \in 1..Len(callArgs.kwargs.exclusion_palette) :
          SpecValid(callArgs.kwargs.exclusion_palette[k])

\* the configuration was loaded: the style is known and the override merged
ConfigLoaded == cfg # EmptyMap

Count(op, k) == Cardinality({ j \in 1..Len(drawn) : drawn[j].op = op /\ drawn[j].node = k })

\* the count excluded on the way into node k (0-based), from the input
Excluded(k) == IF k >= 1 THEN Data[k].N - Data[k + 1].N ELSE 0

\* C3: a call that returns has drawn exactly one main box per node, and an
\* exclusion box (with its junction marker and branch arrow) for exactly the
\* transitions i >= 1 whose excluded count is positive: none for node 0,
\* none for a transition that excludes nobody, so at most n - 1 of them.
C3_BoxCounts ==
    pc = "done"
        => /\ \A k \in 0..(NumNodes - 1) :
                /\ Count("main_box", k) = 1
                /\ \A op \in {"excl_box", "junction", "branch_arrow"} :
                      Count(op, k) = IF k >= 1 /\ Excluded(k) > 0 THEN 1 ELSE 0
           /\ \A j \in 1..Len(drawn) : drawn[j].node \in -1..(NumNodes - 1)
           /\ Cardinality({ j \in 1..Len(drawn) : drawn[j].op = "excl_box" })
                 <= NumNodes - 1

\* a returned call of MaxNodes nodes, the last transition excluding somebody
C3_Witness ==
    /\ pc = "done"
    /\ NumNodes = MaxNodes
    /\ Excluded(NumNodes - 1) > 0
    /\ Count("excl_box", NumNodes - 1) = 1

\* C4: a call that has raised has drawn nothing, created no figure, written
\* no file and made no directory; and whatever is drawn, created or written
\* happens after every node has been processed (validated).
C4_NoPartialOutput ==
    /\ pc = "raised" => NoOutput
    /\ ~NoOutput => Len(processed_nodes) = NumNodes

\* a colour error at the last of MaxNodes nodes, on a supplied drawing area
\* and with a file name to save under
C4_Witness ==
    /\ pc = "raised"
    /\ callOut.raised \in {"InvalidColorError", "ColorPolicyError"}
    /\ NumNodes = MaxNodes
    /\ Len(processed_nodes) = MaxNodes - 1
    /\ callArgs.ax = "host_ax"
    /\ callArgs.img_name = "chart"

----------------------------------------------------------------------------
(* Properties of load_style_config, checked under SpecStyle *)

\* C5: a style name outside the registry 'white', 'colorful' makes
\* load_style_config raise the unknown-style error, which carries the name
\* asked for and the list of the valid names, with or without an override
\* path and before the path is looked at; a registered name never raises it.
C5_UnknownStyle ==
    pc # "ls_resolve"
        => IF callArgs.style \notin {"white", "colorful"}
           THEN /\ pc = "raised"
                /\ callOut = Raise("UnknownStyleError",
                                   [style |-> callArgs.style,
                                    available |-> <<"colorful", "white">>])
                /\ ~pathLooked
                /\ stdout = <<>>
           ELSE callOut.raised # "UnknownStyleError"

\* an unknown name together with an override file that exists
C5_Witness ==
    /\ pc = "raised"
    /\ callArgs.style = "neon"
    /\ callArgs.custom_config_path = "hexonly.toml"

\* the base configuration of a call: the bundled document of the style, or
\* the fallback when the bundled documents cannot be read
BaseOf(style) == IF bundled THEN StyleDocument(style) ELSE FallbackConfig

\* an override path was given, and a style that is known
OverrideGiven == callArgs.custom_config_path # NoValue
                 /\ callArgs.style \in _BUILTIN_STYLES

\* the override file is there but cannot be read or parsed
Unusable(path) == FileExists(path) /\ (~FileReadable(path) \/ ~FileParses(path))

\* C6 as stated: with an override path whose file is missing or unreadable
\* (it exists but cannot be read or parsed), load_style_config does not
\* fail: it returns exactly the base configuration.
C6_MissingOrUnreadableIsBase ==
    (Terminated /\ OverrideGiven
       /\ (~FileExists(callArgs.custom_config_path)
             \/ Unusable(callArgs.custom_config_path)))
        => /\ pc = "done"
           /\ callOut = Return(BaseOf(callArgs.style))

\* C6 amended: with a non-empty override path whose file does not exist,
\* load_style_config does not fail: it prints the warning and returns
\* exactly the base configuration; a file that exists but cannot be read or
\* parsed makes the call fail with the error of the read or of the parser,
\* and no warning is printed.
C6_MissingIsBaseUnreadableFails ==
    (Terminated /\ OverrideGiven /\ callArgs.custom_config_path # "")
        => /\ ~FileExists(callArgs.custom_config_path)
              => /\ pc = "done"
                 /\ callOut = Return(BaseOf(callArgs.style))
                 /\ stdout = <<Warning(callArgs.custom_config_path)>>
           /\ Unusable(callArgs.custom_config_path)
              => /\ pc = "raised"
                 /\ callOut.raised \in {"OSError", "TOMLDecodeError"}
                 /\ stdout = <<>>

\* the colorful style with an override path that names no file, and the
\* white style with a file that is no TOML
C6_Witness ==
    /\ pc = "done"
    /\ callArgs.style = "colorful"
    /\ callArgs.custom_config_path = "missing.toml"
    /\ bundled

C6_WitnessUnreadable ==
    /\ pc = "raised"
    /\ callArgs.custom_config_path = "broken.toml"

----------------------------------------------------------------------------
(* Properties of _recursive_update, checked under SpecMerge *)

\* the merge the documentation describes: for each key of the override the
\* recursive merge when both values are mappings, otherwise the override's
\* value; the keys the override does not have keep the value of the base
RECURSIVE DeepMerge(_, _)
DeepMerge(base, override) ==
    LET b == base.val
        o == override.val
    IN  Map([key \in DOMAIN b \cup DOMAIN o |->
                IF key \notin DOMAIN o THEN b[key]
                ELSE IF key \in DOMAIN b /\ IsMap(b[key]) /\ IsMap(o[key])
                     THEN DeepMerge(b[key], o[key])
                     ELSE o[key]])

\* C7: for all base and override trees, _recursive_update returns the deep
\* merge: recursive where both values are mappings, the override's value
\* otherwise (a mapping for a scalar and a scalar for a mapping included,
\* without error), base values kept for the keys the override lacks.
C7_DeepMerge ==
    pc = "done" => callOut = Return(DeepMerge(callArgs.default, callArgs.override))

\* what does hold of the code: it returns the deep merge whenever no key
\* holds a scalar in the base and a mapping in the override
RECURSIVE ScalarUnderMap(_, _)
ScalarUnderMap(base, override) ==
    \E key \in DOMAIN base.val \cap DOMAIN override.val :
        /\ IsMap(override.val[key])
        /\ \/ ~IsMap(base.val[key])
           \/ ScalarUnderMap(base.val[key], override.val[key])

C7_DeepMergeOfMappings ==
    (pc = "done" /\ ~ScalarUnderMap(callArgs.default, callArgs.override))
        => callOut = Return(DeepMerge(callArgs.default, callArgs.override))

\* the call raised TypeError on a scalar of the base under a mapping
C7_WitnessTypeError ==
    /\ pc = "done"
    /\ callOut.raised = "TypeError"

----------------------------------------------------------------------------
(* Properties of the colour helpers, checked under SpecColor *)

Unrecognised == <<"unrecognised">>

\* the canonical hex of the colour specifications of the model, written out
CanonicalHex(spec) ==
    CASE spec = <<"#","a","a","b","b","c","c">> -> <<"#","a","a","b","b","c","c">>
      [] spec = <<"#","A","A","B","B","C","C">> -> <<"#","a","a","b","b","c","c">>
      [] spec = <<"#","a","b","c">> -> <<"#","a","a","b","b","c","c">>
      [] spec = <<"#","0","0","0","0","0","0">> -> <<"#","0","0","0","0","0","0">>
      [] spec = <<"#","f","f","f","f","f","f">> -> <<"#","f","f","f","f","f","f">>
      [] spec = <<"#","1","0","2","0","3","0","8","0">> -> <<"#","1","0","2","0","3","0">>
      [] spec = <<"r","e","d">> -> <<"#","f","f","0","0","0","0">>
      [] spec = <<"w","h","i","t","e">> -> <<"#","f","f","f","f","f","f">>
      [] OTHER -> Unrecognised

\* C8: resolve_color uses the default when the value is None and the value
\* otherwise; if named colours are not allowed and the chosen string is not
\* '#'-prefixed it raises the colour-policy error with that value; otherwise
\* it returns the canonical hex of the chosen specification, or raises the
\* invalid-colour error with that value when it is not recognised.
C8_ResolveColor ==
    (pc = "done" /\ callFn = "resolve_color")
        => LET chosen == IF callArgs.color_value = None
                         THEN callArgs.default_value
                         ELSE callArgs.color_value
           IN  IF ~callArgs.allow_named_colors /\ Head(chosen) # "#"
               THEN callOut = Raise("ColorPolicyError", chosen)
               ELSE IF CanonicalHex(chosen) = Unrecognised
               THEN callOut = Raise("InvalidColorError", chosen)
               ELSE callOut = Return(CanonicalHex(chosen))

\* no value given, a named default, named colours not allowed
C8_Witness ==
    /\ pc = "done"
    /\ callFn = "resolve_color"
    /\ callArgs.color_value = None
    /\ callArgs.default_value = <<"r","e","d">>
    /\ ~callArgs.allow_named_colors
    /\ callOut.raised = "ColorPolicyError"

\* a call of gradient_palette for n >= 1 with recognised end points
GradientCase ==
    /\ pc = "done"
    /\ callFn = "gradient_palette"
    /\ callArgs.n >= 1
    /\ CanonicalHex(callArgs.start_hex) # Unrecognised
    /\ CanonicalHex(callArgs.end_hex) # Unrecognised

\* C10 as stated: gradient_palette(s, e, n) returns exactly n entries; for
\* n = 1 it returns [s]; for n > 1 the first entry equals s and the last
\* equals e.
C10_EndPointsAsGiven ==
    GradientCase
        => /\ callOut.raised = "no"
           /\ Len(callOut.value) = callArgs.n
           /\ callArgs.n = 1 => callOut.value = <<callArgs.start_hex>>
           /\ callArgs.n > 1 => /\ callOut.value[1] = callArgs.start_hex
                                /\ callOut.value[callArgs.n] = callArgs.end_hex

\* C10 amended: for n >= 1 and recognised colour specifications s and e it
\* returns exactly n entries; for n = 1 it returns [s] as given; for n > 1
\* the first entry is the canonical hex of s and the last the canonical hex
\* of e.
C10_EndPointsCanonical ==
    GradientCase
        => /\ callOut.raised = "no"
           /\ Len(callOut.value) = callArgs.n
           /\ callArgs.n = 1 => callOut.value = <<callArgs.start_hex>>
           /\ callArgs.n > 1
                 => /\ callOut.value[1] = CanonicalHex(callArgs.start_hex)
                    /\ callOut.value[callArgs.n] = CanonicalHex(callArgs.end_hex)

\* a palette of MaxPaletteN colours from a named colour to a short hex
C10_Witness ==
    /\ GradientCase
    /\ callArgs.n = MaxPaletteN
    /\ callArgs.start_hex = <<"r","e","d">>
    /\ callArgs.end_hex = <<"#","a","b","c">>

\* a round trip _rgb_to_hex(_hex_to_rgb(h)) has been made
RoundTripDone == pc = "done" /\ callFn = "_hex_to_rgb"

\* str.lower() of a string of hex digits, written out digit by digit
LowerOf(c) ==
    CASE c = "A" -> "a" [] c = "B" -> "b" [] c = "C" -> "c"
      [] c = "D" -> "d" [] c = "E" -> "e" [] c = "F" -> "f"
      [] OTHER -> c
LowerCase(s) == [k \in 1..Len(s) |-> LowerOf(s[k])]

\* h is '#' followed by six lower-case hex digits
IsCanonical(h) == Len(h) = 7 /\ h[1] = "#" /\ LowerCase(h) = h

\* C11 as stated: for any 6-digit hex colour string h,
\* _rgb_to_hex(_hex_to_rgb(h)) = h.
C11_RoundTrip ==
    RoundTripDone => callOut.value = callArgs.hex_color

\* C11 amended: for any 6-digit hex colour string h, with or without a
\* leading '#', _rgb_to_hex(_hex_to_rgb(h)) is '#' followed by the six
\* digits of h in lower case; it equals h exactly when h is '#'-prefixed
\* and has no upper-case digit.
C11_RoundTripCanonical ==
    RoundTripDone
        => LET h == callArgs.hex_color
               digits == IF h[1] = "#" THEN Tail(h) ELSE h
           IN  /\ callOut.value = <<"#">> \o LowerCase(digits)
               /\ (callOut.value = h) <=> IsCanonical(h)

\* the round trip of a lower-case '#'-prefixed string with three different
\* channels
C11_Witness ==
    /\ RoundTripDone
    /\ callArgs.hex_color = <<"#","0","a","7","f","f","f">>
    /\ callOut.value = callArgs.hex_color

\* the round trip of an upper-case string does not give the string back
C11_WitnessUpper ==
    /\ RoundTripDone
    /\ callArgs.hex_color = <<"#","1","B","A","0","F","F">>
    /\ callOut.value # callArgs.hex_color

\* the value of a hex digit and the channels of a '#rrggbb' string
DigitValue(c) ==
    CASE c = "0" -> 0 [] c = "1" -> 1 [] c = "2" -> 2 [] c = "3" -> 3
      [] c = "4" -> 4 [] c = "5" -> 5 [] c = "6" -> 6 [] c = "7" -> 7
      [] c = "8" -> 8 [] c = "9" -> 9 [] c = "a" -> 10 [] c = "b" -> 11
      [] c = "c" -> 12 [] c = "d" -> 13 [] c = "e" -> 14 [] c = "f" -> 15
Channel(hex, c) == 16 * DigitValue(hex[2 * c]) + DigitValue(hex[2 * c + 1])

Abs(x) == IF x >= 0 THEN x ELSE 0 - x

\* C17: for n > 1 and every index k in 0..n-1, each channel c of
\* gradient_palette(s, e, n)[k] is s_c + (e_c - s_c) * k/(n-1) rounded to
\* the nearest integer (it is an integer in 0..255 at most one half away
\* from that value), each channel on its own; and the midpoint of
\* '#000000' and '#ffffff' for n = 3 is '#808080'.
C17_ChannelsInterpolated ==
    (GradientCase /\ callArgs.n > 1)
        => LET n == callArgs.n
               s == CanonicalHex(callArgs.start_hex)
               e == CanonicalHex(callArgs.end_hex)
               out == callOut.value
           IN  /\ \A k \in 0..(n - 1) : \A c \in 1..3 :
                     /\ Len(out[k + 1]) = 7
                     /\ Channel(out[k + 1], c) \in 0..255
                     /\ 2 * Abs(Channel(out[k + 1], c) * (n - 1)
                                  - (Channel(s, c) * (n - 1)
                                       + (Channel(e, c) - Channel(s, c)) * k))
                           <= n - 1
               /\ (n = 3 /\ s = <<"#","0","0","0","0","0","0">>
                         /\ e = <<"#","f","f","f","f","f","f">>)
                     => out[2] = <<"#","8","0","8","0","8","0">>

\* the palette of three from black to white, with its midpoint
C17_Witness ==
    /\ GradientCase
    /\ callArgs.n = 3
    /\ callArgs.start_hex = <<"#","0","0","0","0","0","0">>
    /\ callArgs.end_hex = <<"#","f","f","f","f","f","f">>
    /\ callOut.value[2] = <<"#","8","0","8","0","8","0">>

\* a palette whose middle entry has channels that differ from one another
C17_WitnessChannels ==
    /\ GradientCase
    /\ callArgs.n = 3
    /\ callArgs.start_hex = <<"r","e","d">>
    /\ callArgs.end_hex = <<"#","a","b","c">>
    /\ callOut.value[2] = <<"#","d","4","5","e","6","6">>

----------------------------------------------------------------------------
(* Properties of wrap_lines, checked under SpecText *)

WrapDone == pc = "done" /\ callFn = "wrap_lines"

\* str.split(): the words of a text, the maximal runs without whitespace
RECURSIVE Words(_)
Words(text) ==
    LET t == LStrip(text)
        first == CHOOSE n \in 1..Len(t) :
                    /\ \A k \in 1..n : ~IsSpace(t[k])
                    /\ n = Len(t) \/ IsSpace(t[n + 1])
    IN  IF t = <<>> THEN <<>>
        ELSE <<SubSeq(t, 1, first)>> \o Words(SubSeq(t, first + 1, Len(t)))

\* the words of a list of lines, line after line
RECURSIVE WordsOfLines(_)
WordsOfLines(lines) ==
    IF lines = <<>> THEN <<>>
    ELSE Words(Head(lines)) \o WordsOfLines(Tail(lines))

\* C12: wrap_lines(text, width) returns the empty sequence for every empty
\* text and for every blank (whitespace-only) text, for any width.
C12_BlankIsEmpty ==
    (WrapDone /\ IsBlank(callArgs.text)) => callOut = Return(<<>>)

\* what holds of the code: the empty text gives the empty sequence for any
\* width; a text of whitespace only is returned as its one line for a
\* positive width, and raises for a width that is not positive
C12_EmptyIsEmptyBlankIsKept ==
    (WrapDone /\ IsBlank(callArgs.text))
        => IF callArgs.text = <<>> THEN callOut = Return(<<>>)
           ELSE IF callArgs.width <= 0 THEN callOut.raised = "InvalidWidth"
           ELSE callOut = Return(<<callArgs.text>>)

\* a text of two spaces has been wrapped, and came back as a line
C12_WitnessBlank ==
    /\ WrapDone
    /\ callArgs.text = <<" ", " ">>
    /\ callArgs.width = MaxWidth
    /\ callOut = Return(<<callArgs.text>>)

\* the lines keep the words of the text, whole and in order, and a line
\* longer than the width is one word of the text
WordsKept(text, width, out) ==
    /\ out.raised = "no"
    /\ WordsOfLines(out.value) = Words(text)
    /\ \A k \in 1..Len(out.value) :
          \/ Len(out.value[k]) <= width
          \/ Words(out.value[k]) = <<out.value[k]>>

\* C13: for every non-empty text and every width, wrap_lines never splits
\* a word, keeps the words in their input order, and every line has at most
\* width characters unless it is a single word longer than width, which is
\* put alone on its line without error.
C13_WordsKept ==
    (WrapDone /\ callArgs.text # <<>>)
        => WordsKept(callArgs.text, callArgs.width, callOut)

\* what holds of the code: the same for a positive width and a text that
\* is not blank and has no hyphen
C13_WordsKeptWithoutHyphen ==
    (WrapDone /\ ~IsBlank(callArgs.text) /\ callArgs.width > 0
       /\ \A k \in 1..Len(callArgs.text) : callArgs.text[k] # "-")
        => WordsKept(callArgs.text, callArgs.width, callOut)

\* a hyphenated word has been split after its hyphen
C13_WitnessHyphen ==
    /\ WrapDone
    /\ callArgs.text = <<"a","b","-","b","a">>
    /\ callArgs.width = MaxWidth
    /\ callOut = Return(<< <<"a","b","-">>, <<"b","a">> >>)

\* two words wrapped into two lines, the second longer than the width
C13_WitnessLongWord ==
    /\ WrapDone
    /\ callArgs.text = <<"a"," ","b","a","a","b">>
    /\ callArgs.width = MaxWidth
    /\ callOut = Return(<< <<"a">>, <<"b","a","a","b">> >>)

----------------------------------------------------------------------------
(* The drawing area and the files, checked under SpecOutput *)

\* C14: when a drawing area is supplied, the call makes no figure, makes
\* every drawing call on the supplied area and returns the figure of that
\* area and the area itself, without closing or clearing it; when none is
\* supplied, it makes exactly one figure with its area, draws on that and
\* returns the two.
C14_SuppliedAreaIsUsed ==
    /\ callArgs.ax # NoValue => figures = 0
    /\ figures <= 1
    /\ \A j \in 1..Len(drawn) :
          /\ drawn[j].ax = (IF callArgs.ax # NoValue THEN callArgs.ax
                             ELSE "new axes")
          /\ drawn[j].op \notin {"close", "clear"}
    /\ pc = "done"
          => /\ drawn # <<>>
             /\ IF callArgs.ax # NoValue
                THEN callOut = Return([fig |-> "figure of " \o callArgs.ax,
                                       ax |-> callArgs.ax])
                ELSE /\ figures = 1
                     /\ callOut = Return([fig |-> "new figure",
                                          ax |-> "new axes"])

\* a returned call that drew MaxNodes nodes on a supplied area, with a
\* title, a transparent background and a file saved
C14_Witness ==
    /\ pc = "done"
    /\ callArgs.ax = "host_ax"
    /\ NumNodes = MaxNodes
    /\ Truthy(callArgs.figure_title)
    /\ callArgs.transparent
    /\ callArgs.img_name = "chart"
    /\ figures = 0

\* the formats asked for: one string is a list of one
RequestedFormats ==
    IF callArgs.save_format.kind = "str" THEN {callArgs.save_format.val}
    ELSE { callArgs.save_format.val[k] : k \in 1..Len(callArgs.save_format.val) }

\* the formats of the model without their leading dots, written out
WithoutDots(fmt) ==
    CASE fmt = <<"p","n","g">> -> <<"p","n","g">>
      [] fmt = <<".","p","n","g">> -> <<"p","n","g">>
      [] fmt = <<".","s","v","g">> -> <<"s","v","g">>
      [] fmt = <<".",".","p","d","f">> -> <<"p","d","f">>

\* the directory the files go to: the save directory, or "." without one
TargetDir == IF callArgs.save_dir \in {NoValue, ""} THEN "."
             ELSE callArgs.save_dir

\* C15: a call that returns with an image base name has written exactly
\* the files {save directory or "."}/{base name}.{format}, one for each
\* format asked for, the leading dots of the format removed and one format
\* string taken as a list of one, has printed one line for each, and has
\* made the directory if it was not there; a call without a base name has
\* written no file and made no directory.
C15_FilesSaved ==
    pc = "done"
        => IF callArgs.img_name \notin {NoValue, ""}
           THEN /\ files = { [dir |-> TargetDir, name |-> callArgs.img_name,
                              format |-> WithoutDots(fmt)] :
                                fmt \in RequestedFormats }
                /\ dirs = IF TargetDir \in {".", "out"} THEN {}
                          ELSE {TargetDir}
                /\ Len(stdout) = Len(Formats(callArgs.save_format))
           ELSE files = {} /\ dirs = {} /\ stdout = <<>>

\* three formats, two of them with leading dots, saved into a directory
\* that was not there
C15_Witness ==
    /\ pc = "done"
    /\ callArgs.img_name = "chart"
    /\ callArgs.save_dir = "plots/new"
    /\ Len(Formats(callArgs.save_format)) = 3
    /\ Cardinality(files) = 3
    /\ [dir |-> "plots/new", name |-> "chart", format |-> <<"p","d","f">>]
          \in files
    /\ dirs = {"plots/new"}

\* one format string with a leading dot, saved without a save directory
C15_WitnessOneFormat ==
    /\ pc = "done"
    /\ callArgs.img_name = "chart"
    /\ callArgs.save_dir = NoValue
    /\ callArgs.save_format = OneFormat(<<".","s","v","g">>)
    /\ files = {[dir |-> ".", name |-> "chart", format |-> <<"s","v","g">>]}

----------------------------------------------------------------------------
(* The colours of the nodes, checked under Spec *)

PalettesBuilt == pc \in {"process", "geometry", "axes", "draw", "finish", "done"}
                 \/ (pc = "raised" /\ main_palette # <<>>)

\* the colour node k (1-based) is resolved from: the explicit key when the
\* node has it, else the alias when the node has it, else the palette entry
\* of the node; a key that holds None falls back to the palette entry
ChosenColour(node, explicit, alias, entry) ==
    LET raw == IF node[explicit] # Absent THEN node[explicit]
               ELSE IF node[alias] # Absent THEN node[alias]
               ELSE entry
    IN  IF raw = None THEN entry ELSE raw

\* C9: the colour of each processed node is resolved from its `color` when
\* the node has one, else from its `color_name`, else from the entry of the
\* main palette at the node's index, and likewise for the exclusion colour;
\* both palettes have exactly one entry per node and, once computed, stay
\* as they are for the rest of the call.
C9_ColourPrecedence ==
    /\ [](PalettesBuilt
            => /\ Len(main_palette) = NumNodes
               /\ Len(excl_palette) = NumNodes
               /\ \A k \in 1..Len(processed_nodes) :
                     /\ processed_nodes[k].color =
                           to_hex(ChosenColour(Data[k], "color", "color_name",
                                               main_palette[k]))
                     /\ processed_nodes[k].excl_color =
                           to_hex(ChosenColour(Data[k], "exclusion_color",
                                               "exclusion_color_name",
                                               excl_palette[k])))
    /\ [][PalettesBuilt => /\ main_palette' = main_palette
                           /\ excl_palette' = excl_palette]_vars

\* a returned call: the first node has both keys, the last takes the entry
\* of a gradient palette whose entries differ
C9_Witness ==
    /\ pc = "done"
    /\ NumNodes = MaxNodes
    /\ Data[1].color = <<"r","e","d">>
    /\ Data[1].color_name = <<"#","a","b","c">>
    /\ Data[NumNodes].color = None
    /\ Data[NumNodes].color_name = <<"b","l","u","e">>
    /\ callArgs.style = "white"
    /\ callArgs.style_config_path = "named.toml"
    /\ callArgs.kwargs.main_palette = <<>>
    /\ main_palette[1] # main_palette[NumNodes]
    /\ processed_nodes[NumNodes].color = main_palette[NumNodes]

----------------------------------------------------------------------------
(* The processed nodes and the layout, checked under SpecLayout *)

\* every node has been processed without error
NodesProcessed == pc \in {"geometry", "axes", "draw", "finish", "done"}

\* the layout has been computed
LaidOut == pc \in {"axes", "draw", "finish", "done"}

\* C16: the processed nodes are the input nodes one for one and in order:
\* the k-th has the count of the k-th input node and as its excluded count
\* 0 for the first node and count[k-1] - count[k] for the others; and once
\* the processing of the nodes has completed without error there is one
\* for every input node, every excluded count is >= 0 and the counts do not
\* increase.
C16_ProcessedNodes ==
    /\ Len(processed_nodes) <= NumNodes
    /\ \A k \in 1..Len(processed_nodes) :
          /\ processed_nodes[k].n = Data[k].N
          /\ processed_nodes[k].excl_n =
                 IF k = 1 THEN 0 ELSE Data[k - 1].N - Data[k].N
    /\ NodesProcessed
          => /\ Len(processed_nodes) = NumNodes
             /\ \A k \in 1..NumNodes : processed_nodes[k].excl_n >= 0
             /\ \A k \in 2..NumNodes : Data[k].N <= Data[k - 1].N

\* a returned call of MaxNodes nodes whose last transition excludes
C16_Witness ==
    /\ pc = "done"
    /\ NumNodes = MaxNodes
    /\ processed_nodes[NumNodes].excl_n > 0
    /\ processed_nodes[1].excl_n = 0

\* the minimum and the needed height of the boxes of a processed node
NeededMain(node) ==
    Geom("padding")
        + Geom("title_line_height")
            * (IF Len(node.title_lines) >= 1 THEN Len(node.title_lines) ELSE 1)
        + Geom("title_body_gap")
        + Geom("body_line_height")
            * (IF Len(node.body_lines) >= 1 THEN Len(node.body_lines) ELSE 1)
NeededExcl(node) ==
    Geom("padding")
        + Geom("body_line_height")
            * (IF Len(node.excl_lines) >= 1 THEN Len(node.excl_lines) ELSE 1)

\* C18: for every processed node the height of the main box is the larger
\* of min_main_height and padding + title_line_height * max(1, title lines)
\* + title_body_gap + body_line_height * max(1, body lines), and the height
\* of the exclusion box the larger of min_exclusion_height and padding +
\* body_line_height * max(1, exclusion lines); so every height is at least
\* its minimum and at least what its lines need.
C18_BoxHeights ==
    \A k \in 1..Len(processed_nodes) :
        LET node == processed_nodes[k]
        IN  /\ node.main_h \in {Geom("min_main_height"), NeededMain(node)}
            /\ node.main_h >= Geom("min_main_height")
            /\ node.main_h >= NeededMain(node)
            /\ node.excl_h \in {Geom("min_exclusion_height"), NeededExcl(node)}
            /\ node.excl_h >= Geom("min_exclusion_height")
            /\ node.excl_h >= NeededExcl(node)

\* two processed nodes under the default geometry: the first takes the
\* minimum heights, the last is higher than the minimum in both boxes
C18_Witness ==
    /\ pc = "done"
    /\ callArgs.style_config_path = "narrow.toml"
    /\ NumNodes = MaxNodes
    /\ processed_nodes[1].main_h = Geom("min_main_height")
    /\ processed_nodes[1].main_h > NeededMain(processed_nodes[1])
    /\ processed_nodes[NumNodes].main_h > Geom("min_main_height")
    /\ processed_nodes[NumNodes].excl_h > Geom("min_exclusion_height")
    /\ Len(processed_nodes[NumNodes].title_lines) > 1

\* the gap of the reference before node k (1-based, k >= 2)
ReferenceGap(k) ==
    LET needed == IF processed_nodes[k].excl_n > 0
                  THEN processed_nodes[k].excl_h + 2 * Geom("clearance")
                  ELSE 0
    IN  IF Layout("base_gap") >= needed THEN Layout("base_gap") ELSE needed

\* C19: the layout computed is that of the reference: center[0] =
\* top_margin + main_h[0]/2; for i >= 1, gap[i] = max(base_gap, excl_h[i] +
\* 2 * clearance if excl_n[i] > 0 else 0) and center[i] = center[i-1] +
\* main_h[i-1]/2 + gap[i] + main_h[i]/2; the total height is center[last] +
\* main_h[last]/2 + bottom_margin. (The equations are stated doubled, so
\* that they hold no half; every half the code takes is exact.)
C19_LayoutIsReference ==
    LaidOut
        => LET n == Len(processed_nodes)
               h(k) == processed_nodes[k].main_h
           IN  /\ Len(centers_y) = n
               /\ Len(transition_gaps) = n - 1
               /\ \A k \in 1..n : h(k) % 2 = 0
               /\ 2 * centers_y[1] = 2 * Layout("top_margin") + h(1)
               /\ \A k \in 2..n :
                     /\ transition_gaps[k - 1] = ReferenceGap(k)
                     /\ 2 * centers_y[k] =
                            2 * centers_y[k - 1] + h(k - 1)
                              + 2 * ReferenceGap(k) + h(k)
               /\ 2 * total_height =
                      2 * centers_y[n] + h(n) + 2 * Layout("bottom_margin")

\* a layout of MaxNodes nodes whose last gap is the room of an exclusion
\* box, larger than the base gap
C19_Witness ==
    /\ pc = "done"
    /\ NumNodes = MaxNodes
    /\ callArgs.style_config_path = NoValue
    /\ processed_nodes[NumNodes].excl_n > 0
    /\ transition_gaps[NumNodes - 1] > Layout("base_gap")
    /\ total_height > centers_y[NumNodes]

\* a layout whose last transition excludes nobody: the gap is the base gap
C19_WitnessBaseGap ==
    /\ pc = "done"
    /\ NumNodes = MaxNodes
    /\ callArgs.style_config_path = NoValue
    /\ processed_nodes[NumNodes].excl_n = 0
    /\ transition_gaps[NumNodes - 1] = Layout("base_gap")

\* the style has positive minimum heights and no negative gap or margin
StyleIsValid ==
    /\ Geom("min_main_height") > 0
    /\ Geom("min_exclusion_height") > 0
    /\ Layout("base_gap") >= 0
    /\ Geom("clearance") >= 0
    /\ Layout("top_margin") >= 0
    /\ Layout("bottom_margin") >= 0

\* the boxes drawn
Boxes == { j \in 1..Len(drawn) : drawn[j].op \in {"main_box", "excl_box"} }

\* the main box drawn for node k (0-based)
MainBox(k) ==
    drawn[CHOOSE j \in 1..Len(drawn) :
              drawn[j].op = "main_box" /\ drawn[j].node = k]

C20_WitnessInvalidStyle ==
    /\ pc = "done"
    /\ NumNodes = MaxNodes
    /\ ~StyleIsValid
    /\ centers_y[NumNodes] <= centers_y[NumNodes - 1]

----------------------------------------------------------------------------
(* The exclusion boxes, checked under SpecLayout *)

\* the exclusion boxes drawn
ExclBoxes == { j \in 1..Len(drawn) : drawn[j].op = "excl_box" }

\* the exclusion box j is centred at the midpoint between the bottom of the
\* main box before its node and the top of the main box of its node
CentredInGap(j) ==
    LET k == drawn[j].node
    IN  2 * drawn[j].y + drawn[j].h = BoxBottom(k - 1) + BoxTop(k)

\* the exclusion box j lies in that gap with the clearance free on both sides
ClearOfMainBoxes(j) ==
    LET k == drawn[j].node
    IN  /\ drawn[j].y >= BoxBottom(k - 1) + Geom("clearance")
        /\ drawn[j].y + drawn[j].h <= BoxTop(k) - Geom("clearance")

\* the exclusion box j shares no height with the main boxes next to it
NoOverlap(j) ==
    LET k == drawn[j].node
    IN  /\ drawn[j].y >= BoxBottom(k - 1)
        /\ drawn[j].y + drawn[j].h <= BoxTop(k)

C21_WitnessNegativeClearance ==
    /\ pc = "done"
    /\ Geom("clearance") < 0
    /\ \E j \in ExclBoxes : CentredInGap(j) /\ ~NoOverlap(j)

----------------------------------------------------------------------------
(* The lines of the exclusion boxes, checked under SpecLayout *)

\* the label the claim gives a node without an exclusion description
ExcludedLabel == <<"E","x","c","l","u","d","e","d">>

\* exclusionDescription or "Excluded": the description of the node, the
\* label when it is absent or empty
DescriptionOrLabel(node) ==
    IF Get(node, "exclusion_description", <<>>) = <<>> THEN ExcludedLabel
    ELSE Get(node, "exclusion_description", <<>>)

\* C22: for every processed node the exclusion lines are the lines of
\* wrap_lines of its exclusion description, or of "Excluded" when the
\* description is absent or empty, at exclusion_text_width, followed by the
\* line "(n = {excluded count})" as the last line; so there are at least
\* two of them.
C22_ExclusionLines ==
    \A k \in 1..Len(processed_nodes) :
        LET node == callArgs.data[k]
            wrapped == wrap_lines(DescriptionOrLabel(node),
                                  Layout("exclusion_text_width"))
        IN  /\ wrapped.raised = "no"
            /\ processed_nodes[k].excl_lines =
                   Append(wrapped.value, CountLine(processed_nodes[k].excl_n))
            /\ Len(processed_nodes[k].excl_lines) >= 2

\* what holds of every processed node: the last exclusion line is the count
\* line, and there are at least two lines unless the node carries an
\* exclusion description that is empty or blank
C22_CountLineLastLabelUnlessBlank ==
    \A k \in 1..Len(processed_nodes) :
        LET node == callArgs.data[k]
            lines == processed_nodes[k].excl_lines
        IN  /\ Len(lines) >= 1
            /\ lines[Len(lines)] = CountLine(processed_nodes[k].excl_n)
            /\ Get(node, "exclusion_description", Absent) = Absent
                  => lines = <<ExcludedLabel, CountLine(processed_nodes[k].excl_n)>>
            /\ ~IsBlank(Get(node, "exclusion_description", ExcludedLabel))
                  => Len(lines) >= 2

\* a drawn exclusion box of a node whose exclusion description is empty: its
\* only line is the count line
C22_WitnessEmptyDescription ==
    /\ pc = "done"
    /\ \E j \in ExclBoxes :
          LET k == drawn[j].node + 1
          IN  /\ callArgs.data[k].exclusion_description = <<>>
              /\ processed_nodes[k].excl_lines = <<CountLine(1)>>

----------------------------------------------------------------------------
(* The layers of the shapes, checked under SpecLayout *)

\* the shapes drawn, by kind
Connectors == { j \in 1..Len(drawn) : drawn[j].op \in {"arrow", "branch_arrow"} }
Junctions == { j \in 1..Len(drawn) : drawn[j].op = "junction" }
TextLabels ==
    { j \in 1..Len(drawn) :
          drawn[j].op \in {"title_text", "body_text", "excl_text"} }

\* every shape of the set over lies on a higher layer than every shape of
\* the set under
Above(over, under) ==
    \A a \in over, b \in under : drawn[a].zorder > drawn[b].zorder

\* C23 as stated: back to front the layers are connectors, boxes, junction
\* markers, text labels: every text label has a higher z-order than every
\* junction marker, every junction marker a higher z-order than every box,
\* and every box a higher z-order than every connector.
C23_TextOnTop ==
    /\ Above(TextLabels, Junctions)
    /\ Above(Junctions, Boxes)
    /\ Above(Boxes, Connectors)

\* C23 amended: back to front the layers are connectors, boxes, text
\* labels, junction markers: every junction marker has a higher z-order
\* than every text label, every text label a higher z-order than every
\* box, and every box a higher z-order than every connector.
C23_JunctionOnTop ==
    /\ Above(Junctions, TextLabels)
    /\ Above(TextLabels, Boxes)
    /\ Above(Boxes, Connectors)

\* a returned call that drew a junction marker, besides boxes, connectors
\* and text labels
C23_Witness ==
    /\ pc = "done"
    /\ Junctions # {}
    /\ Cardinality(Connectors) >= 2
    /\ Cardinality(Boxes) >= 3
    /\ Cardinality(TextLabels) >= 5

----------------------------------------------------------------------------
(* The default palettes, checked under SpecPalette *)

\* no node of the call carries a colour key, and no palette is passed
NoColourOverrides ==
    /\ \A k \in 1..NumNodes :
          /\ Data[k].color = Absent
          /\ Data[k].color_name = Absent
          /\ Data[k].exclusion_color = Absent
          /\ Data[k].exclusion_color_name = Absent
    /\ callArgs.kwargs.main_palette = <<>>
    /\ callArgs.kwargs.exclusion_palette = <<>>

\* the style has been loaded
StyleLoaded == DOMAIN cfg.val # {}

\* the four gradient end points of the style are colour specifications
EndPointsValid ==
    \A key \in {"main_start", "main_end", "exclusion_start", "exclusion_end"} :
        to_hex(Color(key)) # ValueError

\* the call has raised a colour error
ColourErrorRaised ==
    /\ pc = "raised"
    /\ callOut.raised \in {"ColorPolicyError", "InvalidColorError", "ValueError"}

\* every entry of the two palettes starts with '#'
PaletteEntriesAreHex ==
    /\ \A k \in 1..Len(main_palette) : StartsWithHash(main_palette[k])
    /\ \A k \in 1..Len(excl_palette) : StartsWithHash(excl_palette[k])

\* C24: for every number of nodes n >= 1, one node included, when no node
\* carries a colour key, no palette is passed and the gradient end points
\* of the style are colour specifications, resolving the entries of the
\* default palettes raises no colour error, also under a style that
\* disallows named colours.
C24_DefaultPaletteResolves ==
    (NumNodes >= 1 /\ NoColourOverrides /\ StyleLoaded /\ EndPointsValid)
        => ~ColourErrorRaised

\* what holds: the same for two nodes or more; for one node the palette is
\* the start colour as the style gives it, and a colour error is raised
\* just when the style disallows named colours and a start colour does not
\* start with '#'
C24_DefaultPaletteResolvesFromTwoNodes ==
    (NumNodes >= 1 /\ NoColourOverrides /\ StyleLoaded /\ EndPointsValid)
        => IF NumNodes >= 2
           THEN /\ ~ColourErrorRaised
                /\ PalettesBuilt => PaletteEntriesAreHex
           ELSE /\ PalettesBuilt
                     => /\ main_palette = <<Color("main_start")>>
                        /\ excl_palette = <<Color("exclusion_start")>>
                /\ ColourErrorRaised
                     => /\ ~Color("allow_named_colors")
                        /\ \/ ~StartsWithHash(Color("main_start"))
                           \/ ~StartsWithHash(Color("exclusion_start"))
                        /\ callOut.raised = "ColorPolicyError"

\* one node, a style with valid named end points that disallows named
\* colours: the call has raised the policy error for the palette entry
C24_WitnessSingleNode ==
    /\ NumNodes = 1
    /\ NoColourOverrides
    /\ callArgs.style_config_path = "strict.toml"
    /\ StyleLoaded /\ EndPointsValid
    /\ ColourErrorRaised
    /\ callOut.raised = "ColorPolicyError"

\* two nodes under the same style: the call returns
C24_WitnessTwoNodes ==
    /\ NumNodes = 2
    /\ NoColourOverrides
    /\ callArgs.style_config_path = "strict.toml"
    /\ pc = "done"
    /\ PaletteEntriesAreHex

====
